---- MODULE Spec2Model ----
(***************************************************************************)
(* grit: version control for playlists.                                    *)
(*                                                                         *)
(* The module models                                                       *)
(*   - the diff engine and the local patch applier (src/state/diff.rs),    *)
(*   - the Spotify provider's apply (src/provider/spotify.rs),             *)
(*   - the on-disk state machine driven by the init / add / remove /       *)
(*     move / reset / commit commands (src/cli/commands).                  *)
(*                                                                         *)
(* Vec indices are 0-based in the source and are kept 0-based here; the    *)
(* helpers At, VecRemove and VecInsert translate to TLA+ sequences.        *)
(***************************************************************************)
EXTENDS Integers, Sequences, FiniteSets, TLC

VARIABLES
    pc,        \* position of the engine run: "start", "ready", "applied", "pushed"
    pre,       \* track sequence handed to diff / apply_patch (the pre-state)
    target,    \* the `new` snapshot's track sequence given to diff
    patch,     \* DiffPatch.changes
    post,      \* track sequence after apply_patch
    remote,    \* the playlist as the Spotify server holds it
    sent,      \* HTTP mutation requests the Spotify apply has sent, in order
    answers,   \* how each request sent was answered: "2xx" or "error"
    pushed,    \* result of the Spotify apply: "none", "ok", "err"
    head,      \* playlists/<id>/playlist.yaml: a snapshot, or NoFile
    objects,   \* playlists/<id>/objects/: hash -> snapshot
    journal,   \* playlists/<id>/journal.log: sequence of JournalEntry
    staged,    \* playlists/<id>/staged: the staged DiffPatch.changes
    working,   \* working_playlist.json: playlist id, or NoPointer
    last,      \* what the last command did (observation only)
    faulted,   \* whether a file operation has failed during the run
    spent,     \* how much of the run's budget MaxChanges is used
    file,      \* journal.log as text: whether it exists, and its lines
    appended,  \* the entries JournalEntry::append has written with success
    readout,   \* what the last JournalEntry::read_all returned
    access_token, \* SpotifyProvider.access_token: an Option
    upstream,  \* the pages of playlist items the Spotify server serves
    next_url,  \* fetch: the next cursor, an Option
    all_tracks, \* fetch: the tracks collected so far
    gets,      \* fetch: the GET requests sent, with how each was answered
    fetched,   \* what fetch returned
    old_token, \* the OAuthToken handed to refresh_token
    token_requests, \* the refresh tokens sent to the token endpoint
    refreshed  \* what refresh_token returned

engineVars == <<pc, pre, target, patch, post, remote, sent, answers, pushed>>
engineVarsButPc == <<pre, target, patch, post, remote, sent, answers, pushed>>
diskVars   == <<head, objects, journal, staged, working, last, faulted, spent>>
journalVars == <<file, appended, readout>>
providerVars == <<access_token, upstream, next_url, all_tracks, gets, fetched,
                  old_token, token_requests, refreshed>>
vars       == <<pc, pre, target, patch, post, remote, sent, answers, pushed,
                head, objects, journal, staged, working, last, faulted, spent,
                file, appended, readout,
                access_token, upstream, next_url, all_tracks, gets, fetched,
                old_token, token_requests, refreshed>>

----------------------------------------------------------------------------
(* Bounds of the model *)

\* longest track list drawn as an input
MaxLen == 3
\* longest patch drawn as an input
MaxPatch == 2

\* most changes staged over a run of commands (committed, reset or still
\* staged), a half-done failure counting as one
MaxChanges == 3
\* snapshot.rs: the bytes of the SHA-256 digest kept by compute_hash
HashBytes == 6

\* ids of the tracks of the playlists drawn as inputs
AllIds   == <<"a", "b", "c", "d", "e">>
\* ids of the tracks of the playlists handed to diff
DiffIds  == {"a", "b", "c"}
\* ids of tracks that a patch drawn as an input may add
NewIds   == {"f", "g"}
\* a head snapshot file that does not exist
NoFile   == [id |-> "NoFile", tracks |-> <<>>]
\* a working-playlist pointer file that does not exist
NoPointer == "NoFile"
\* a journal.log that does not exist
NoJournal == [exists |-> FALSE, lines |-> <<>>, tail |-> <<>>]
\* no read_all has returned yet
NotRead == [ok |-> TRUE, entries |-> <<>>, error |-> "not read"]
\* Option<T>: None, and Some(x)
None == <<>>
Some(x) == <<x>>
\* fetch has not returned yet
NotFetched == [ok |-> FALSE, snapshot |-> NoFile, error |-> "not returned"]
\* an OAuthToken of a run that calls no refresh_token
NoToken ==
    [access_token |-> "", refresh_token |-> None, expires_at |-> None,
     token_type |-> "", scope |-> None]
\* refresh_token has not returned yet
NotRefreshed == [ok |-> FALSE, token |-> NoToken, error |-> "not returned"]

----------------------------------------------------------------------------
(* Tracks and Vec helpers *)

\* provider::Track, reduced to its identity and display name
Track(id) == [id |-> id, name |-> id]

\* s[i] of a Vec
At(s, i) == s[i + 1]

\* Vec::remove(i): requires i < len
VecRemove(s, i) == SubSeq(s, 1, i) \o SubSeq(s, i + 2, Len(s))

\* Vec::insert(i, x): requires i <= len
VecInsert(s, i, x) == SubSeq(s, 1, i) \o <<x>> \o SubSeq(s, i + 1, Len(s))

\* the 0-based indices of a Vec
Indices(s) == 0 .. (Len(s) - 1)

\* TrackChange
Added(t, i)    == [kind |-> "Added", track |-> t, index |-> i]
Removed(t, i)  == [kind |-> "Removed", track |-> t, index |-> i]
Moved(t, f, g) == [kind |-> "Moved", track |-> t, from |-> f, to |-> g]

IsAdded(c)   == c.kind = "Added"
IsRemoved(c) == c.kind = "Removed"
IsMoved(c)   == c.kind = "Moved"

\* all sequences over S of length at most n
SeqsUpTo(S, n) == UNION {[1 .. k -> S] : k \in 0 .. n}

\* the orders in which a HashMap with key set S may be iterated
Orders(S) == {f \in [1 .. Cardinality(S) -> S] : \A i, j \in DOMAIN f : f[i] = f[j] => i = j}

NoDup(s) == \A i, j \in DOMAIN s : s[i].id = s[j].id => i = j

----------------------------------------------------------------------------
(* state/diff.rs: diff *)

\* keys of the HashMap collected from tracks.iter().enumerate()
MapKeys(tracks) == {tracks[i].id : i \in DOMAIN tracks}

\* the (index, track) a key maps to: collect() keeps the last insertion
MapGet(tracks, id) ==
    LET i == CHOOSE i \in DOMAIN tracks :
                 /\ tracks[i].id = id
                 /\ \A j \in DOMAIN tracks : tracks[j].id = id => j <= i
    IN  [index |-> i - 1, track |-> tracks[i]]

\* FindRemoved numbering the removals in the order the map yields them
FindRemovedInOrder(old, new, oldOrder) ==
    LET keep(id) == id \notin MapKeys(new)
        ids == SelectSeq(oldOrder, keep)
    IN  [k \in DOMAIN ids |-> Removed(MapGet(old, ids[k]).track, k - 1)]

\* first loop: ids of old_map that new_map lacks, in old_map's iteration order
FindRemoved(old, new, oldOrder) ==
    LET keep(id) == id \notin MapKeys(new)
        ids == SelectSeq(oldOrder, keep)
    IN  [k \in DOMAIN ids |->
            Removed(MapGet(old, ids[k]).track, MapGet(old, ids[k]).index)]

\* FindAdded numbering the additions in the order the map yields them
FindAddedInOrder(old, new, newOrder) ==
    LET keep(id) == id \notin MapKeys(old)
        ids == SelectSeq(newOrder, keep)
    IN  [k \in DOMAIN ids |-> Added(MapGet(new, ids[k]).track, k - 1)]

\* second loop: ids of new_map that old_map lacks, in new_map's iteration order
FindAdded(old, new, newOrder) ==
    LET keep(id) == id \notin MapKeys(old)
        ids == SelectSeq(newOrder, keep)
    IN  [k \in DOMAIN ids |->
            Added(MapGet(new, ids[k]).track, MapGet(new, ids[k]).index)]

\* FindMoved without the comparison of the two indices
FindMovedUnchecked(old, new, newOrder) ==
    LET keep(id) == id \in MapKeys(old)
        ids == SelectSeq(newOrder, keep)
    IN  [k \in DOMAIN ids |->
            Moved(MapGet(new, ids[k]).track, MapGet(old, ids[k]).index,
                  MapGet(new, ids[k]).index)]

\* FindMoved comparing the (index, track) pairs, metadata included
FindMovedByValue(old, new, newOrder) ==
    LET keep(id) == /\ id \in MapKeys(old)
                    /\ MapGet(old, id) # MapGet(new, id)
        ids == SelectSeq(newOrder, keep)
    IN  [k \in DOMAIN ids |->
            Moved(MapGet(new, ids[k]).track, MapGet(old, ids[k]).index,
                  MapGet(new, ids[k]).index)]

\* third loop: ids in both maps whose indices differ, in new_map's iteration order
FindMoved(old, new, newOrder) ==
    LET keep(id) == /\ id \in MapKeys(old)
                    /\ MapGet(old, id).index # MapGet(new, id).index
        ids == SelectSeq(newOrder, keep)
    IN  [k \in DOMAIN ids |->
            Moved(MapGet(new, ids[k]).track, MapGet(old, ids[k]).index,
                  MapGet(new, ids[k]).index)]

\* diff(old, new), for one iteration order of each of the two maps
diff(old, new, oldOrder, newOrder) ==
    FindRemoved(old, new, oldOrder) \o FindAdded(old, new, newOrder)
        \o FindMoved(old, new, newOrder)

----------------------------------------------------------------------------
(* state/diff.rs: apply_patch *)

RECURSIVE InsertByIndexDesc(_, _)
\* place c behind every element whose index is >= c.index (stable)
InsertByIndexDesc(sorted, c) ==
    IF sorted = <<>> THEN <<c>>
    ELSE IF Head(sorted).index >= c.index
         THEN <<Head(sorted)>> \o InsertByIndexDesc(Tail(sorted), c)
         ELSE <<c>> \o sorted

\* the removals left in patch order
SortRemovalsUnsorted(rs) == rs

RECURSIVE SortRemovals(_)
\* removals.sort_by(|a, b| b.0.cmp(&a.0)): stable, highest index first
SortRemovals(rs) ==
    IF rs = <<>> THEN <<>>
    ELSE InsertByIndexDesc(SortRemovals(SubSeq(rs, 1, Len(rs) - 1)), rs[Len(rs)])

\* RemoveOne dropping the last track when the index is out of range
RemoveOneClamped(tracks, c) ==
    IF c.index < Len(tracks) THEN VecRemove(tracks, c.index)
    ELSE IF tracks # <<>> THEN VecRemove(tracks, Len(tracks) - 1)
    ELSE tracks

\* one Removed: skipped when the index is out of range
RemoveOne(tracks, c) ==
    IF c.index < Len(tracks) THEN VecRemove(tracks, c.index) ELSE tracks

\* AddOne skipping an addition whose index exceeds the length
AddOneSkipping(tracks, c) ==
    IF c.index <= Len(tracks) THEN VecInsert(tracks, c.index, c.track) ELSE tracks

\* one Added: insert at index, or push when the index exceeds the length
AddOne(tracks, c) ==
    IF c.index <= Len(tracks) THEN VecInsert(tracks, c.index, c.track)
    ELSE Append(tracks, c.track)

\* MoveOne inserting one place early on a forward move
MoveOneShifted(tracks, c) ==
    IF c.from < Len(tracks) /\ c.to < Len(tracks)
    THEN VecInsert(VecRemove(tracks, c.from),
                   IF c.from < c.to THEN c.to - 1 ELSE c.to, At(tracks, c.from))
    ELSE tracks

\* MoveOne inserting a copy at `to` and leaving the track at `from`
MoveOneCopying(tracks, c) ==
    IF c.from < Len(tracks) /\ c.to < Len(tracks)
    THEN VecInsert(tracks, c.to, At(tracks, c.from))
    ELSE tracks

\* one Moved: remove at from, insert at to; skipped when either is out of range
MoveOne(tracks, c) ==
    IF c.from < Len(tracks) /\ c.to < Len(tracks)
    THEN VecInsert(VecRemove(tracks, c.from), c.to, At(tracks, c.from))
    ELSE tracks

RECURSIVE RemoveAll(_, _)
RemoveAll(tracks, rs) ==
    IF rs = <<>> THEN tracks ELSE RemoveAll(RemoveOne(tracks, Head(rs)), Tail(rs))

RECURSIVE AddAll(_, _)
AddAll(tracks, as) ==
    IF as = <<>> THEN tracks ELSE AddAll(AddOne(tracks, Head(as)), Tail(as))

RECURSIVE MoveAll(_, _)
MoveAll(tracks, ms) ==
    IF ms = <<>> THEN tracks ELSE MoveAll(MoveOne(tracks, Head(ms)), Tail(ms))

\* the body of the loop that processes c
StepOne(tracks, c) ==
    IF IsRemoved(c) THEN RemoveOne(tracks, c)
    ELSE IF IsAdded(c) THEN AddOne(tracks, c)
    ELSE MoveOne(tracks, c)

\* the Vec calls the loop body makes for c on `tracks`: the operation, its
\* index and the length of the Vec it is called on
VecCalls(tracks, c) ==
    LET n == Len(tracks)
    IN  IF IsRemoved(c)
        THEN IF c.index < n THEN <<[op |-> "remove", at |-> c.index, len |-> n]>>
             ELSE <<>>
        ELSE IF IsAdded(c)
        THEN IF c.index <= n THEN <<[op |-> "insert", at |-> c.index, len |-> n]>>
             ELSE <<[op |-> "push", at |-> n, len |-> n]>>
        ELSE IF c.from < n /\ c.to < n
             THEN <<[op |-> "remove", at |-> c.from, len |-> n],
                    [op |-> "insert", at |-> c.to, len |-> n - 1]>>
             ELSE <<>>

\* the three vectors the first loop of apply_patch fills
Removals(changes)  == SelectSeq(changes, IsRemoved)
Additions(changes) == SelectSeq(changes, IsAdded)
Moves(changes)     == SelectSeq(changes, IsMoved)

\* apply_patch processing the additions before the removals
apply_patch_AddFirst(tracks, changes) ==
    MoveAll(RemoveAll(AddAll(tracks, Additions(changes)),
                      SortRemovals(Removals(changes))),
            Moves(changes))

\* the changes in the order the three loops of apply_patch process them
Processed(changes) ==
    SortRemovals(Removals(changes)) \o Additions(changes) \o Moves(changes)

\* apply_patch on the track vector of the snapshot
apply_patch(tracks, changes) ==
    MoveAll(AddAll(RemoveAll(tracks, SortRemovals(Removals(changes))),
                   Additions(changes)),
            Moves(changes))

----------------------------------------------------------------------------
(* provider/spotify.rs: SpotifyProvider::apply *)

\* the request of one Removed: DELETE /playlists/{id}/tracks, by track URI
DeleteRequest(c) == [method |-> "DELETE", uri |-> c.track.id]

\* the request of one Added: POST /playlists/{id}/tracks, URI and position
PostRequest(c) == [method |-> "POST", uri |-> c.track.id, position |-> c.index]

\* insert_before without the compensation on a forward move
InsertBeforeTo(from, to) == to

\* insert_before of a reorder request
InsertBefore(from, to) == IF from < to THEN to + 1 ELSE to

\* the request of one Moved: PUT /playlists/{id}/tracks
PutRequest(c) ==
    [method |-> "PUT", range_start |-> c.from,
     insert_before |-> InsertBefore(c.from, c.to), range_length |-> 1]

RequestOf(c) ==
    IF IsRemoved(c) THEN DeleteRequest(c)
    ELSE IF IsAdded(c) THEN PostRequest(c)
    ELSE PutRequest(c)

\* the requests of a single pass over patch.changes
RequestsInPatchOrder(changes) ==
    [k \in DOMAIN changes |-> RequestOf(changes[k])]

\* the requests apply sends when none fails: three passes over patch.changes
Requests(changes) ==
    LET rs == SelectSeq(changes, IsRemoved)
        as == SelectSeq(changes, IsAdded)
        ms == SelectSeq(changes, IsMoved)
        all == rs \o as \o ms
    IN  [k \in DOMAIN all |-> RequestOf(all[k])]

\* the Spotify Web API, as the comments of apply describe it: whether the
\* server answers a request with a 2xx status on the list it holds
ServerAccepts(list, req) ==
    CASE req.method = "DELETE" -> TRUE
      [] req.method = "POST"   -> req.position <= Len(list)
      [] req.method = "PUT"    -> /\ req.range_start < Len(list)
                                  /\ req.insert_before <= Len(list)

\* the list the server holds after a request it accepted: remove by URI,
\* insert at position, reorder with remove-then-insert-before semantics
ServerStep(list, req) ==
    CASE req.method = "DELETE" ->
            LET keep(t) == t.id # req.uri IN SelectSeq(list, keep)
      [] req.method = "POST"   -> VecInsert(list, req.position, Track(req.uri))
      [] req.method = "PUT"    ->
            LET at == IF req.insert_before > req.range_start
                      THEN req.insert_before - 1 ELSE req.insert_before
            IN  VecInsert(VecRemove(list, req.range_start), at,
                          At(list, req.range_start))

RECURSIVE ServerRun(_, _)
\* the server's list after a sequence of accepted requests
ServerRun(list, reqs) ==
    IF reqs = <<>> THEN list ELSE ServerRun(ServerStep(list, Head(reqs)), Tail(reqs))

RECURSIVE Accepted(_, _)
\* how many of the leading requests the server accepts in turn
Accepted(list, reqs) ==
    IF reqs = <<>> \/ ~ServerAccepts(list, Head(reqs)) THEN 0
    ELSE 1 + Accepted(ServerStep(list, Head(reqs)), Tail(reqs))

----------------------------------------------------------------------------
(* Inputs of the engine runs *)

\* the playlist <<a, b, ...>> of length n
Canon(n) == [i \in 1 .. n |-> Track(AllIds[i])]

\* the track a drawn change carries for index i: the one at i, or the first
\* track of the model when i is out of range
Carried(tracks, i) == IF i < Len(tracks) THEN At(tracks, i) ELSE Track(AllIds[1])

\* Removed changes on `tracks`: in range and one past the end, carrying the
\* track at the index or (a stale record) another one
RemovedOn(tracks) ==
    UNION {{Removed(Carried(tracks, i), i), Removed(Track(AllIds[1]), i)} :
              i \in 0 .. Len(tracks)}

\* Added changes on `tracks`: in range, at the end and beyond it
AddedOn(tracks) ==
    {Added(Track(id), i) : id \in NewIds, i \in 0 .. Len(tracks) + 1}

\* Moved changes on `tracks`: in range and one past the end
MovedOn(tracks) ==
    {Moved(Carried(tracks, f), f, g) : f \in 0 .. Len(tracks), g \in 0 .. Len(tracks)}

\* the changes a patch on `tracks` is drawn from
ChangesOn(tracks) == RemovedOn(tracks) \cup AddedOn(tracks) \cup MovedOn(tracks)

\* scenario 2 of the specification: [A, B, C, D, E] with Removed@1,
\* Removed@3 and Added{F, 0}
ScenarioPre == [i \in 1 .. Len(AllIds) |-> Track(AllIds[i])]
ScenarioChanges ==
    {Removed(Track("b"), 1), Removed(Track("d"), 3), Added(Track("f"), 0)}
ScenarioPost == <<Track("f"), Track("a"), Track("c"), Track("e")>>

\* all orders of the elements of a finite set of changes
PatchesOf(S) == Orders(S)

\* the patches drawn for `tracks`
Patches(tracks) ==
    IF tracks = ScenarioPre THEN PatchesOf(ScenarioChanges)
    ELSE SeqsUpTo(ChangesOn(tracks), MaxPatch)
            \cup SeqsUpTo(RemovedOn(tracks), Len(tracks))

\* duplicate-free and duplicate-holding playlists handed to diff
Snapshots == SeqsUpTo({Track(id) : id \in DiffIds}, MaxLen)

----------------------------------------------------------------------------
(* The engine runs: diff or a loaded patch, apply_patch, then the remote apply *)

\* a run that makes no call to the provider's fetch or refresh_token
InitProvider ==
    /\ access_token = None
    /\ upstream = <<>>
    /\ next_url = None
    /\ all_tracks = <<>>
    /\ gets = <<>>
    /\ fetched = NotFetched
    /\ old_token = NoToken
    /\ token_requests = <<>>
    /\ refreshed = NotRefreshed

\* the .grit directory before any command: no file
InitDisk ==
    /\ head = NoFile
    /\ objects = <<>>
    /\ journal = <<>>
    /\ staged = <<>>
    /\ working = NoPointer
    /\ last = [cmd |-> "none", ok |-> TRUE, message |-> "None", write |-> "none"]
    /\ faulted = FALSE
    /\ spent = 0
    /\ file = NoJournal
    /\ appended = <<>>
    /\ readout = NotRead
    /\ InitProvider

InitEngine(inputs) ==
    /\ pc = "start"
    /\ pre \in inputs
    /\ target = <<>>
    /\ patch = <<>>
    /\ post = <<>>
    /\ remote = pre
    /\ sent = <<>>
    /\ answers = <<>>
    /\ pushed = "none"
    /\ InitDisk

\* diff(pre, new) with some iteration order of the two maps
RunDiff ==
    /\ pc = "start"
    /\ \E new \in Snapshots :
         \E oldOrder \in Orders(MapKeys(pre)), newOrder \in Orders(MapKeys(new)) :
            /\ target' = new
            /\ patch' = diff(pre, new, oldOrder, newOrder)
    /\ pc' = "ready"
    /\ UNCHANGED <<pre, post, remote, sent, answers, pushed>>
    /\ UNCHANGED diskVars
    /\ UNCHANGED journalVars
    /\ UNCHANGED providerVars

\* a patch read from a patch file or from staging
LoadPatch ==
    /\ pc = "start"
    /\ patch' \in Patches(pre)
    /\ pc' = "ready"
    /\ UNCHANGED <<pre, target, post, remote, sent, answers, pushed>>
    /\ UNCHANGED diskVars
    /\ UNCHANGED journalVars
    /\ UNCHANGED providerVars

\* apply_patch(&mut snapshot, &patch)
ApplyPatch ==
    /\ pc = "ready"
    /\ post' = apply_patch(pre, patch)
    /\ pc' = "applied"
    /\ UNCHANGED <<pre, target, patch, remote, sent, answers, pushed>>
    /\ UNCHANGED diskVars
    /\ UNCHANGED journalVars
    /\ UNCHANGED providerVars

\* SpotifyProvider::apply ignoring the status of the answers: every request
\* is sent and the result is Ok
SpotifyApplyUnchecked ==
    /\ pc = "ready"
    /\ \E n \in 0 .. Accepted(remote, Requests(patch)) :
         LET reqs == Requests(patch) IN
         /\ remote' = ServerRun(remote, SubSeq(reqs, 1, n))
         /\ sent' = reqs
         /\ answers' = [k \in DOMAIN reqs |-> IF k <= n THEN "2xx" ELSE "error"]
         /\ pushed' = "ok"
    /\ pc' = "pushed"
    /\ UNCHANGED <<pre, target, patch, post>>
    /\ UNCHANGED diskVars
    /\ UNCHANGED journalVars
    /\ UNCHANGED providerVars

\* SpotifyProvider::apply(playlist_id, &patch): get_token fails and nothing is
\* sent, or the first n requests are answered 2xx; when n is less than their
\* number, request n + 1 is sent and fails (a non-2xx answer, or the transport
\* fails, in which case the server may still have carried the request out)
\* and apply returns the error
SpotifyApply ==
    /\ pc = "ready"
    /\ \/ /\ sent' = <<>>
          /\ answers' = <<>>
          /\ pushed' = "err"
          /\ UNCHANGED remote
       \/ \E n \in 0 .. Accepted(remote, Requests(patch)), landed \in BOOLEAN :
             LET reqs == Requests(patch)
                 failing == n < Len(reqs)
                 m == IF failing THEN n + 1 ELSE n
                 done == ServerRun(remote, SubSeq(reqs, 1, n))
             IN  /\ landed => (failing /\ ServerAccepts(done, reqs[n + 1]))
                 /\ remote' = IF landed THEN ServerStep(done, reqs[n + 1]) ELSE done
                 /\ sent' = SubSeq(reqs, 1, m)
                 /\ answers' = [k \in 1 .. m |-> IF k <= n THEN "2xx" ELSE "error"]
                 /\ pushed' = IF failing THEN "err" ELSE "ok"
    /\ pc' = "pushed"
    /\ UNCHANGED <<pre, target, patch, post>>
    /\ UNCHANGED diskVars
    /\ UNCHANGED journalVars
    /\ UNCHANGED providerVars

\* diff followed by apply_patch
InitDiff  == InitEngine(Snapshots)
NextDiff  == RunDiff \/ ApplyPatch
SpecDiff  == InitDiff /\ [][NextDiff]_vars

\* apply_patch on a loaded patch
InitApply == InitEngine({Canon(n) : n \in 0 .. MaxLen} \cup {ScenarioPre})
NextApply == LoadPatch \/ ApplyPatch
SpecApply == InitApply /\ [][NextApply]_vars

\* the Spotify apply on a loaded patch
NextPush  == LoadPatch \/ SpotifyApply
SpecPush  == InitApply /\ [][NextPush]_vars

----------------------------------------------------------------------------
(* state/snapshot.rs, state/journal.rs and the staging area *)

\* the one playlist the commands are run on
PlaylistId == "p1"
\* the --playlist argument: absent, or the playlist
PlaylistArgs == {"None", PlaylistId}
\* commit messages
Messages == {"m1"}
\* track ids given to the add command
AddIds == {"f"}
\* the track vectors of the playlists the provider may return to init
FetchedTracks == {<<>>, <<Track("a")>>, <<Track("a"), Track("b")>>}
\* track ids given to remove and move_track
CommandIds == {"a", "b", "f"}
\* target positions given to move_track
CommandIndices == {0, 1, 2}

\* PlaylistSnapshot: the playlist id and the track vector
Snapshot(id, tracks) == [id |-> id, tracks |-> tracks]

\* the byte a track contributes to the serialization
Code(id) ==
    LET all == AllIds \o <<"f", "g">>
    IN  CHOOSE k \in DOMAIN all : all[k] = id

RECURSIVE Digest(_, _, _)
\* the digest of the serialized tracks from position k on, kept as HashBytes
\* bytes: each track is mixed into the byte its position selects
Digest(h, tracks, k) ==
    IF k > Len(tracks) THEN h
    ELSE LET b == ((k - 1) % HashBytes) + 1
         IN  Digest([h EXCEPT ![b] = (h[b] * 7 + Code(tracks[k].id)) % 256],
                    tracks, k + 1)

\* a hash that is the same for all snapshots of one length
compute_hash_ByLength(snapshot) ==
    [b \in 1 .. HashBytes |-> Len(snapshot.tracks)]

\* compute_hash(snapshot): the first HashBytes bytes of the digest of the
\* serialized snapshot (the hex string is kept as its bytes)
compute_hash(snapshot) ==
    Digest([b \in 1 .. HashBytes |-> 0], snapshot.tracks, 1)

\* the digits of format!("{:02x}", b)
HexDigits ==
    <<"0", "1", "2", "3", "4", "5", "6", "7", "8", "9", "a", "b", "c", "d", "e", "f">>

\* a byte written with {:x}: no leading zero
FormatByteUnpadded(b) ==
    IF b < 16 THEN <<HexDigits[b + 1]>>
    ELSE <<HexDigits[(b \div 16) + 1], HexDigits[(b % 16) + 1]>>

\* format!("{:02x}", b): two lowercase hexadecimal digits
FormatByte(b) == <<HexDigits[(b \div 16) + 1], HexDigits[(b % 16) + 1]>>

RECURSIVE to_hex(_)
\* .map(|b| format!("{:02x}", b)).collect(): the hash as the string returned
to_hex(bytes) ==
    IF bytes = <<>> THEN <<>> ELSE FormatByte(Head(bytes)) \o to_hex(Tail(bytes))

\* snapshot::save_by_hash: writes objects/<hash>
save_by_hash(pool, snapshot, hash) ==
    [h \in DOMAIN pool \cup {hash} |-> IF h = hash THEN snapshot ELSE pool[h]]

\* JournalEntry::new: no message
JournalEntryNew(op, hash, added, removed, moved) ==
    [operation |-> op, snapshot_hash |-> hash, added |-> added,
     removed |-> removed, moved |-> moved, message |-> "None"]

\* JournalEntry::new_with_message
JournalEntryNewWithMessage(op, hash, added, removed, moved, message) ==
    [operation |-> op, snapshot_hash |-> hash, added |-> added,
     removed |-> removed, moved |-> moved, message |-> message]

\* an append that truncates journal.log before it writes the line
JournalAppendTruncating(log, entry) == <<entry>>

\* JournalEntry::append: one more line at the end of journal.log
JournalAppend(log, entry) == Append(log, entry)

\* staging: stage_change appends to the staged patch
stage_change(changes, change) == Append(changes, change)

\* staging: load_staged reads the staged patch (empty when there is none)
load_staged(changes) == changes

\* staging: clear_staged leaves no staged change
clear_staged(changes) == <<>>

\* the position of the first track with the id: iter().enumerate().find()
FindTrack(tracks, id) ==
    CHOOSE i \in Indices(tracks) :
        /\ At(tracks, i).id = id
        /\ \A j \in Indices(tracks) : At(tracks, j).id = id => i <= j

HasTrack(tracks, id) == \E i \in Indices(tracks) : At(tracks, i).id = id

\* what a command leaves in `last`: the command, whether it returned Ok, the
\* commit message given, and how the latest init or commit run that wrote a
\* file ended ("none", "ok", "err")
Outcome(cmd, ok, message, write) ==
    [cmd |-> cmd, ok |-> ok, message |-> message, write |-> write]

\* a command that returned an error before it wrote anything
Rejected(cmd) ==
    /\ last' = Outcome(cmd, FALSE, "None", last.write)
    /\ UNCHANGED <<head, objects, journal, staged, working>>

\* a run of commands sees at most one failure that leaves an init or a commit
\* half done, and only when the run allows failures (faulted starts FALSE) and
\* the budget of the run is not used up; failures that leave the files as they
\* were are not counted
Fault(failed) ==
    /\ failed => (~faulted /\ spent < MaxChanges)
    /\ faulted' = (faulted \/ failed)

\* the outcomes of init and of commit with nothing written
InitHarmless   == {"none", "credentials", "fetch", "save"}
CommitHarmless == {"none", "load_staged", "load", "hash"}

----------------------------------------------------------------------------
(* cli/commands/init.rs: run *)

InitFailures ==
    {"none", "credentials", "fetch", "save", "hash", "save_by_hash", "append",
     "clear_staged", "working"}

\* the steps of init with the journal appended before the by-hash write
InitStepsJournalFirst ==
    <<"save", "hash", "append", "save_by_hash", "clear_staged", "working">>

\* the steps of init, in program order, that write
InitSteps == <<"save", "hash", "save_by_hash", "append", "clear_staged", "working">>

\* whether the step is reached and succeeds when the run fails at `fail`
Reached(steps, step, fail) ==
    LET pos(x) == CHOOSE k \in DOMAIN steps : steps[k] = x
    IN  fail = "none" \/ (fail \in {steps[k] : k \in DOMAIN steps} /\ pos(step) < pos(fail))

\* init_run writing the working-playlist pointer before it fetches
init_run_EarlyPointer(playlist, fail) ==
    IF head # NoFile
    THEN Rejected("init") /\ fail = "none"
    ELSE IF fail = "credentials"
    THEN Rejected("init")
    ELSE IF fail \in {"fetch", "save"}
    THEN /\ last' = Outcome("init", FALSE, "None", last.write)
         /\ working' = playlist.id
         /\ UNCHANGED <<head, objects, journal, staged>>
    ELSE LET hash == compute_hash(playlist)
             entry == JournalEntryNew("Init", hash, Len(playlist.tracks), 0, 0)
             did(step) == Reached(InitSteps, step, fail)
         IN  /\ head' = playlist
             /\ objects' = IF did("save_by_hash")
                            THEN save_by_hash(objects, playlist, hash) ELSE objects
             /\ journal' = IF did("append") THEN JournalAppend(journal, entry) ELSE journal
             /\ staged' = IF did("clear_staged") THEN clear_staged(staged) ELSE staged
             /\ working' = playlist.id
             /\ last' = Outcome("init", fail = "none", "None",
                                 IF fail = "none" THEN "ok" ELSE "err")

\* init_run returning before the working-playlist pointer is written
init_run_NoPointer(playlist, fail) ==
    IF head # NoFile
    THEN Rejected("init") /\ fail = "none"
    ELSE IF fail \in InitHarmless \ {"none"}
    THEN Rejected("init")
    ELSE LET hash == compute_hash(playlist)
             entry == JournalEntryNew("Init", hash, Len(playlist.tracks), 0, 0)
             did(step) == Reached(InitSteps, step, fail)
         IN  /\ head' = playlist
             /\ objects' = IF did("save_by_hash")
                            THEN save_by_hash(objects, playlist, hash) ELSE objects
             /\ journal' = IF did("append") THEN JournalAppend(journal, entry) ELSE journal
             /\ staged' = IF did("clear_staged") THEN clear_staged(staged) ELSE staged
             /\ working' = working
             /\ last' = Outcome("init", fail = "none", "None",
                                 IF fail = "none" THEN "ok" ELSE "err")

\* init_run without the check that the head snapshot file exists
init_run_Again(playlist, fail) ==
    IF fail \in InitHarmless \ {"none"}
    THEN Rejected("init")
    ELSE LET hash == compute_hash(playlist)
             entry == JournalEntryNew("Init", hash, Len(playlist.tracks), 0, 0)
             did(step) == Reached(InitSteps, step, fail)
         IN  /\ head' = playlist
             /\ objects' = IF did("save_by_hash")
                            THEN save_by_hash(objects, playlist, hash) ELSE objects
             /\ journal' = IF did("append") THEN JournalAppend(journal, entry) ELSE journal
             /\ staged' = IF did("clear_staged") THEN clear_staged(staged) ELSE staged
             /\ working' = IF did("working") THEN playlist.id ELSE working
             /\ last' = Outcome("init", fail = "none", "None",
                                 IF fail = "none" THEN "ok" ELSE "err")

\* init of the playlist with the snapshot the provider returns
init_run(playlist, fail) ==
    IF head # NoFile
    THEN Rejected("init") /\ fail = "none"
    ELSE IF fail \in InitHarmless \ {"none"}
    THEN Rejected("init")
    ELSE LET hash == compute_hash(playlist)
             entry == JournalEntryNew("Init", hash, Len(playlist.tracks), 0, 0)
             did(step) == Reached(InitSteps, step, fail)
         IN  /\ head' = playlist
             /\ objects' = IF did("save_by_hash")
                            THEN save_by_hash(objects, playlist, hash) ELSE objects
             /\ journal' = IF did("append") THEN JournalAppend(journal, entry) ELSE journal
             /\ staged' = IF did("clear_staged") THEN clear_staged(staged) ELSE staged
             /\ working' = IF did("working") THEN playlist.id ELSE working
             /\ last' = Outcome("init", fail = "none", "None",
                                 IF fail = "none" THEN "ok" ELSE "err")

----------------------------------------------------------------------------
(* cli/commands/staging.rs: add, remove, move_track, reset, commit *)

\* the checks every staging command starts with: a playlist id is given and
\* its head snapshot exists
Initialized(playlist) == playlist # "None" /\ head # NoFile

\* a staging command that stages `change`, or fails to write it
Stage(cmd, change, fail) ==
    IF fail
    THEN Rejected(cmd)
    ELSE /\ staged' = stage_change(staged, change)
         /\ last' = Outcome(cmd, TRUE, "None", last.write)
         /\ UNCHANGED <<head, objects, journal, working>>

\* add: the track is staged at the length of the head snapshot
add(track_id, playlist, fail) ==
    IF ~Initialized(playlist)
    THEN Rejected("add") /\ ~fail
    ELSE Stage("add", Added(Track(track_id), Len(head.tracks)), fail)

\* remove refusing a track that is staged for removal already
remove_Once(track_id, playlist, fail) ==
    IF \/ ~Initialized(playlist)
       \/ ~HasTrack(head.tracks, track_id)
       \/ \E k \in DOMAIN staged : IsRemoved(staged[k]) /\ staged[k].track.id = track_id
    THEN Rejected("remove") /\ ~fail
    ELSE LET index == FindTrack(head.tracks, track_id)
         IN  Stage("remove", Removed(At(head.tracks, index), index), fail)

\* remove: the first track with the id is staged for removal
remove(track_id, playlist, fail) ==
    IF ~Initialized(playlist) \/ ~HasTrack(head.tracks, track_id)
    THEN Rejected("remove") /\ ~fail
    ELSE LET index == FindTrack(head.tracks, track_id)
         IN  Stage("remove", Removed(At(head.tracks, index), index), fail)

\* move_track accepting a target position beyond the end of the playlist
move_track_Unbounded(track_id, new_index, playlist, fail) ==
    IF \/ ~Initialized(playlist)
       \/ ~HasTrack(head.tracks, track_id)
       \/ FindTrack(head.tracks, track_id) = new_index
    THEN Rejected("move") /\ ~fail
    ELSE LET from_index == FindTrack(head.tracks, track_id)
         IN  Stage("move", Moved(At(head.tracks, from_index), from_index, new_index), fail)

\* move_track: the first track with the id is staged to move to new_index
move_track(track_id, new_index, playlist, fail) ==
    IF \/ ~Initialized(playlist)
       \/ ~HasTrack(head.tracks, track_id)
       \/ FindTrack(head.tracks, track_id) = new_index
       \/ new_index >= Len(head.tracks)
    THEN Rejected("move") /\ ~fail
    ELSE LET from_index == FindTrack(head.tracks, track_id)
         IN  Stage("move", Moved(At(head.tracks, from_index), from_index, new_index), fail)

\* reset reporting success without clearing the staged patch
reset_Kept(playlist, fail) ==
    IF ~Initialized(playlist)
    THEN Rejected("reset") /\ ~fail
    ELSE /\ last' = Outcome("reset", TRUE, "None", last.write)
         /\ UNCHANGED <<head, objects, journal, staged, working>>
         /\ ~fail

\* reset: nothing to do without staged changes, else the staged patch is cleared
reset(playlist, fail) ==
    IF ~Initialized(playlist)
    THEN Rejected("reset") /\ ~fail
    ELSE IF load_staged(staged) = <<>>
    THEN /\ last' = Outcome("reset", TRUE, "None", last.write)
         /\ UNCHANGED <<head, objects, journal, staged, working>>
         /\ ~fail
    ELSE IF fail
    THEN Rejected("reset")
    ELSE /\ staged' = clear_staged(staged)
         /\ last' = Outcome("reset", TRUE, "None", last.write)
         /\ UNCHANGED <<head, objects, journal, working>>

StatusFailures == {"none", "load", "load_staged", "create_provider", "fetch"}

\* status: prints the staged changes and the local/remote difference and
\* writes nothing; a failing fetch is reported and status returns Ok
status(playlist, fail) ==
    IF ~Initialized(playlist)
    THEN Rejected("status") /\ fail = "none"
    ELSE IF fail \in {"load", "load_staged", "create_provider"}
    THEN Rejected("status")
    ELSE /\ last' = Outcome("status", TRUE, "None", last.write)
         /\ UNCHANGED <<head, objects, journal, staged, working>>

CommitFailures ==
    {"none", "load_staged", "load", "hash", "save_by_hash", "save", "append",
     "clear_staged"}

\* the steps of commit with the head overwritten before the by-hash write
CommitStepsHeadFirst == <<"save", "save_by_hash", "append", "clear_staged">>

\* the steps of commit with the staged patch cleared before anything is written
CommitStepsClearFirst == <<"clear_staged", "save_by_hash", "save", "append">>

\* the steps of commit, in program order, from the first that writes
CommitSteps == <<"save_by_hash", "save", "append", "clear_staged">>

\* the added / removed / moved counters of commit
Counts(changes) ==
    [added |-> Len(Additions(changes)), removed |-> Len(Removals(changes)),
     moved |-> Len(Moves(changes))]

\* CommitPlan taking the hash before the patch is applied
CommitPlanStaleHash(snapshot, changes, message) ==
    LET copy == [snapshot EXCEPT !.tracks = apply_patch(snapshot.tracks, changes)]
        hash == compute_hash(snapshot)
        n == Counts(changes)
    IN  [snapshot |-> copy, hash |-> hash,
         entry |-> JournalEntryNewWithMessage("Commit", hash, n.added, n.removed,
                                              n.moved, message)]

\* CommitPlan recording the removals as additions and the additions as removals
CommitPlanSwappedCounts(snapshot, changes, message) ==
    LET copy == [snapshot EXCEPT !.tracks = apply_patch(snapshot.tracks, changes)]
        hash == compute_hash(copy)
        n == Counts(changes)
    IN  [snapshot |-> copy, hash |-> hash,
         entry |-> JournalEntryNewWithMessage("Commit", hash, n.removed, n.added,
                                              n.moved, message)]

\* what commit computes before it writes: the patched copy of the head, its
\* hash and the journal entry
CommitPlan(snapshot, changes, message) ==
    LET copy == [snapshot EXCEPT !.tracks = apply_patch(snapshot.tracks, changes)]
        hash == compute_hash(copy)
        n == Counts(changes)
    IN  [snapshot |-> copy, hash |-> hash,
         entry |-> JournalEntryNewWithMessage("Commit", hash, n.added, n.removed,
                                              n.moved, message)]

\* commit without the early return on an empty staged patch
commit_Always(message, playlist, fail) ==
    IF ~Initialized(playlist)
    THEN Rejected("commit") /\ fail = "none"
    ELSE IF fail \in {"load_staged", "load", "hash"}
    THEN Rejected("commit")
    ELSE LET plan == CommitPlan(head, load_staged(staged), message)
             did(step) == Reached(CommitSteps, step, fail)
         IN  /\ objects' = IF did("save_by_hash")
                            THEN save_by_hash(objects, plan.snapshot, plan.hash)
                            ELSE objects
             /\ head' = IF did("save") THEN plan.snapshot ELSE head
             /\ journal' = IF did("append")
                            THEN JournalAppend(journal, plan.entry) ELSE journal
             /\ staged' = IF did("clear_staged") THEN clear_staged(staged) ELSE staged
             /\ last' = Outcome("commit", fail = "none", message,
                                 IF fail = "none" THEN "ok"
                                 ELSE IF did("save_by_hash") THEN "err" ELSE last.write)
             /\ UNCHANGED working

\* commit: a no-op without staged changes; else the patched head is stored by
\* hash, written as the head and journalled, and the staged patch is cleared
commit(message, playlist, fail) ==
    IF ~Initialized(playlist)
    THEN Rejected("commit") /\ fail = "none"
    ELSE IF fail = "load_staged"
    THEN Rejected("commit")
    ELSE IF load_staged(staged) = <<>>
    THEN /\ last' = Outcome("commit", TRUE, message, last.write)
         /\ UNCHANGED <<head, objects, journal, staged, working>>
         /\ fail = "none"
    ELSE IF fail \in {"load", "hash"}
    THEN Rejected("commit")
    ELSE LET plan == CommitPlan(head, load_staged(staged), message)
             did(step) == Reached(CommitSteps, step, fail)
         IN  /\ objects' = IF did("save_by_hash")
                            THEN save_by_hash(objects, plan.snapshot, plan.hash)
                            ELSE objects
             /\ head' = IF did("save") THEN plan.snapshot ELSE head
             /\ journal' = IF did("append")
                            THEN JournalAppend(journal, plan.entry) ELSE journal
             /\ staged' = IF did("clear_staged") THEN clear_staged(staged) ELSE staged
             /\ last' = Outcome("commit", fail = "none", message,
                                 IF fail = "none" THEN "ok"
                                 ELSE IF did("save_by_hash") THEN "err" ELSE last.write)
             /\ UNCHANGED working

----------------------------------------------------------------------------
(* The commands, run one after another on the .grit directory *)

InitCli(faults) ==
    /\ head = NoFile
    /\ objects = <<>>
    /\ journal = <<>>
    /\ staged = <<>>
    /\ working = NoPointer
    /\ last = [cmd |-> "none", ok |-> TRUE, message |-> "None", write |-> "none"]
    /\ faulted = ~faults
    /\ spent = 0
    /\ file = NoJournal
    /\ appended = <<>>
    /\ readout = NotRead
    /\ InitProvider
    /\ pc = "cli"
    /\ pre = <<>>
    /\ target = <<>>
    /\ patch = <<>>
    /\ post = <<>>
    /\ remote = <<>>
    /\ sent = <<>>
    /\ answers = <<>>
    /\ pushed = "none"

\* the playlists the provider may return to init
Fetched == {Snapshot(PlaylistId, tracks) : tracks \in FetchedTracks}

\* whether one more change may be staged in the model
MayStage == spent < MaxChanges

\* the budget of the run: the changes staged so far and the half-done failure
Spend ==
    spent' = spent + (IF Len(staged') > Len(staged) THEN 1 ELSE 0)
                   + (IF faulted' # faulted THEN 1 ELSE 0)

CmdInit ==
    /\ \E playlist \in Fetched, fail \in InitFailures :
         init_run(playlist, fail) /\ Fault(fail \notin InitHarmless /\ head = NoFile) /\ Spend
    /\ UNCHANGED engineVars
    /\ UNCHANGED journalVars
    /\ UNCHANGED providerVars

CmdAdd ==
    /\ MayStage
    /\ \E id \in AddIds, playlist \in PlaylistArgs, fail \in BOOLEAN :
         add(id, playlist, fail) /\ Fault(FALSE) /\ Spend
    /\ UNCHANGED engineVars
    /\ UNCHANGED journalVars
    /\ UNCHANGED providerVars

CmdRemove ==
    /\ MayStage
    /\ \E id \in CommandIds, playlist \in PlaylistArgs, fail \in BOOLEAN :
         remove(id, playlist, fail) /\ Fault(FALSE) /\ Spend
    /\ UNCHANGED engineVars
    /\ UNCHANGED journalVars
    /\ UNCHANGED providerVars

CmdMove ==
    /\ MayStage
    /\ \E id \in CommandIds, new_index \in CommandIndices,
          playlist \in PlaylistArgs, fail \in BOOLEAN :
         move_track(id, new_index, playlist, fail) /\ Fault(FALSE) /\ Spend
    /\ UNCHANGED engineVars
    /\ UNCHANGED journalVars
    /\ UNCHANGED providerVars

CmdStatus ==
    /\ \E playlist \in PlaylistArgs, fail \in StatusFailures :
         status(playlist, fail) /\ Fault(FALSE) /\ Spend
    /\ UNCHANGED engineVars
    /\ UNCHANGED journalVars
    /\ UNCHANGED providerVars

CmdReset ==
    /\ \E playlist \in PlaylistArgs, fail \in BOOLEAN :
         reset(playlist, fail) /\ Fault(FALSE) /\ Spend
    /\ UNCHANGED engineVars
    /\ UNCHANGED journalVars
    /\ UNCHANGED providerVars

CmdCommit ==
    /\ \E message \in Messages, playlist \in PlaylistArgs, fail \in CommitFailures :
         commit(message, playlist, fail) /\ Fault(fail \notin CommitHarmless /\ staged # <<>> /\ head # NoFile) /\ Spend
    /\ UNCHANGED engineVars
    /\ UNCHANGED journalVars
    /\ UNCHANGED providerVars

\* the commands when no file operation fails half-way
Init == InitCli(FALSE)
Next ==
    CmdInit \/ CmdAdd \/ CmdRemove \/ CmdMove \/ CmdStatus \/ CmdReset \/ CmdCommit
Spec == Init /\ [][Next]_vars

\* the commands when one init or commit may fail half-way
InitFaults == InitCli(TRUE)
SpecFaults == InitFaults /\ [][Next]_vars

\* the add command given any of the tracks that are not in the playlist
CmdAddNew ==
    /\ MayStage
    /\ \E id \in NewIds, playlist \in PlaylistArgs, fail \in BOOLEAN :
         add(id, playlist, fail) /\ Fault(FALSE) /\ Spend
    /\ UNCHANGED engineVars
    /\ UNCHANGED journalVars
    /\ UNCHANGED providerVars

\* init, additions of different tracks and commits, no file operation
\* failing half-way
NextAdds == CmdInit \/ CmdAddNew \/ CmdCommit
SpecAdds == Init /\ [][NextAdds]_vars

----------------------------------------------------------------------------
(* state/journal.rs: append and read_all on the text of journal.log *)

\* most lines of the journal.log the model writes
MaxLines == 3

\* enum Operation of journal.rs
Operation == {"Init", "Pull", "Push", "Apply"}
\* the operation kinds the commands record: those of the enum, and Commit and
\* Revert that staging.rs and the specification name
OperationKinds == Operation \cup {"Commit", "Revert"}

\* the entries handed to append
JournalEntries ==
    {JournalEntryNew("Init", compute_hash(Snapshot(PlaylistId, <<Track("a")>>)), 1, 0, 0),
     JournalEntryNewWithMessage("Commit",
         compute_hash(Snapshot(PlaylistId, <<Track("a"), Track("f")>>)), 1, 0, 0, "m1")}

\* serde_json::to_string(entry): the fields in declaration order, a missing
\* message written as null
to_string(entry) ==
    <<entry.operation, entry.snapshot_hash, entry.added, entry.removed,
      entry.moved, IF entry.message = "None" THEN "null" ELSE entry.message>>

\* serde_json::from_str(line): an entry when the line holds every field and a
\* known operation kind, else an error
from_str(line) ==
    IF Len(line) = 6 /\ line[1] \in OperationKinds
    THEN [ok |-> TRUE,
          entry |-> [operation |-> line[1], snapshot_hash |-> line[2],
                     added |-> line[3], removed |-> line[4], moved |-> line[5],
                     message |-> IF line[6] = "null" THEN "None" ELSE line[6]]]
    ELSE [ok |-> FALSE, entry |-> JournalEntryNew("Init", <<>>, 0, 0, 0)]

\* the text a write that fails half-way leaves: the start of the line, no newline
Truncated(entry) == SubSeq(to_string(entry), 1, 3)

\* lines that do not come from append: an empty line, a line of white space,
\* a cut line and a line with an operation kind that does not exist
ForeignLines ==
    {<<>>, <<" ">>, <<"Init">>,
     <<"Squash", compute_hash(Snapshot(PlaylistId, <<>>)), 0, 0, 0, "null">>}

\* ln.trim().is_empty()
IsBlank(line) == line \in {<<>>, <<" ">>}
NotBlank(line) == ~IsBlank(line)

\* Result<Vec<JournalEntry>>
Ok(entries) == [ok |-> TRUE, entries |-> entries, error |-> "none"]
Err(error) == [ok |-> FALSE, entries |-> <<>>, error |-> error]

\* JournalEntry::append: the file is created if absent and the line is written
\* behind what the file holds; `fail` is the step that fails
append(f, entry, fail) ==
    CASE fail = "open"  -> f
      [] fail = "write" -> [f EXCEPT !.exists = TRUE]
      [] fail = "write_partial" ->
            [f EXCEPT !.exists = TRUE, !.tail = f.tail \o Truncated(entry)]
      [] fail = "none"  ->
            [exists |-> TRUE,
             lines |-> Append(f.lines, f.tail \o to_string(entry)),
             tail |-> <<>>]

\* content.lines(): the lines of the file, the unterminated last one included
Lines(f) == f.lines \o (IF f.tail = <<>> THEN <<>> ELSE <<f.tail>>)

\* read_all returning the entries parsed before the first line that fails
read_all_Partial(f, fail) ==
    IF ~f.exists THEN Ok(<<>>)
    ELSE IF fail THEN Err("read")
    ELSE LET kept == SelectSeq(Lines(f), NotBlank)
             bad == {k \in DOMAIN kept : ~from_str(kept[k]).ok}
             n == IF bad = {} THEN Len(kept)
                  ELSE (CHOOSE k \in bad : \A j \in bad : k <= j) - 1
         IN  Ok([k \in 1 .. n |-> from_str(kept[k]).entry])

\* JournalEntry::read_all: no file gives the empty list; else every non-blank
\* line is parsed and the first failure is the result
read_all(f, fail) ==
    IF ~f.exists THEN Ok(<<>>)
    ELSE IF fail THEN Err("read")
    ELSE LET kept == SelectSeq(Lines(f), NotBlank)
         IN  IF \E k \in DOMAIN kept : ~from_str(kept[k]).ok
             THEN Err("parse")
             ELSE Ok([k \in DOMAIN kept |-> from_str(kept[k]).entry])

\* a call of JournalEntry::append
AppendCall ==
    /\ pc \in {"journal", "read"}
    /\ Len(file.lines) < MaxLines
    /\ \E entry \in JournalEntries, fail \in {"none", "open", "write", "write_partial"} :
         /\ fail = "write_partial" => file.tail = <<>>
         /\ file' = append(file, entry, fail)
         /\ appended' = IF fail = "none" THEN Append(appended, entry) ELSE appended
    /\ readout' = NotRead
    /\ pc' = "journal"
    /\ UNCHANGED <<pre, target, patch, post, remote, sent, answers, pushed>>
    /\ UNCHANGED diskVars
    /\ UNCHANGED providerVars

\* journal.log edited from outside the program: a line is added
JournalEdited ==
    /\ pc \in {"journal", "read"}
    /\ file.exists
    /\ file.tail = <<>>
    /\ Len(file.lines) < MaxLines
    /\ \E line \in ForeignLines : file' = [file EXCEPT !.lines = Append(@, line)]
    /\ readout' = NotRead
    /\ pc' = "journal"
    /\ UNCHANGED <<pre, target, patch, post, remote, sent, answers, pushed, appended>>
    /\ UNCHANGED diskVars
    /\ UNCHANGED providerVars

\* a call of JournalEntry::read_all
ReadAll ==
    /\ pc = "journal"
    /\ \E fail \in BOOLEAN :
         /\ fail => file.exists
         /\ readout' = read_all(file, fail)
    /\ pc' = "read"
    /\ UNCHANGED <<pre, target, patch, post, remote, sent, answers, pushed, file, appended>>
    /\ UNCHANGED diskVars
    /\ UNCHANGED providerVars

InitJournal ==
    /\ pc = "journal"
    /\ pre = <<>>
    /\ target = <<>>
    /\ patch = <<>>
    /\ post = <<>>
    /\ remote = <<>>
    /\ sent = <<>>
    /\ answers = <<>>
    /\ pushed = "none"
    /\ InitDisk
NextJournal == AppendCall \/ JournalEdited \/ ReadAll
SpecJournal == InitJournal /\ [][NextJournal]_vars

----------------------------------------------------------------------------
(* provider/spotify.rs: SpotifyProvider::fetch *)

\* SpotifyTrackObject, as the server sends it
SpotifyTrackObject(id) ==
    [id |-> id, name |-> id, duration_ms |-> 1, artists |-> <<[name |-> "x"]>>]

\* SpotifyTrackItem: track is None for an item the server has no track for
SpotifyTrackItem(track) == [track |-> track]

\* the items a playlist is drawn from
Items ==
    {SpotifyTrackItem(None)}
        \cup {SpotifyTrackItem(Some(SpotifyTrackObject(id))) : id \in DiffIds}

\* the pages of a list of items cut behind the positions in cuts; a playlist
\* without items is served as one empty page
PagesOf(items, cuts) ==
    LET pageOf(i) == 1 + Cardinality({c \in cuts : c < i})
        page(k) == SelectSeq([i \in DOMAIN items |-> <<i, items[i]>>],
                             LAMBDA e : pageOf(e[1]) = k)
    IN  [k \in 1 .. Cardinality(cuts) + 1 |->
            [i \in DOMAIN page(k) |-> page(k)[i][2]]]

\* the playlists the server may hold, as the pages it serves them in
Upstreams ==
    UNION {{PagesOf(items, cuts) : cuts \in SUBSET (1 .. Len(items) - 1)} :
              items \in SeqsUpTo(Items, MaxLen)}

\* SpotifyTracks.next of page k: the URL of the page behind it, if there is one
NextOf(pages, k) == IF k < Len(pages) THEN Some(k + 1) ELSE None

\* the Track pushed for an item: none when item.track is None
PushItem(item) ==
    IF item.track = None THEN <<>>
    ELSE LET track == item.track[1] IN <<[id |-> track.id, name |-> track.name]>>

RECURSIVE PushItems(_)
\* the loop over the items of a page
PushItems(items) ==
    IF items = <<>> THEN <<>> ELSE PushItem(Head(items)) \o PushItems(Tail(items))

\* one GET request and how it ended
Get(url, answer) == [url |-> url, answer |-> answer]

\* api_get: Ok on a 2xx answer that parses, else the error
ApiGetFailures == {"send", "status", "parse"}

\* Result<PlaylistSnapshot>
FetchOk(snapshot) == [ok |-> TRUE, snapshot |-> snapshot, error |-> "none"]
FetchErr(error) == [ok |-> FALSE, snapshot |-> NoFile, error |-> error]

\* fetch up to the first await: get_token, then GET /playlists/{id}; the
\* answer carries the first page of items and its next cursor
FetchPlaylist ==
    /\ pc = "fetch"
    /\ \/ /\ access_token = None
          /\ fetched' = FetchErr("token")
          /\ pc' = "returned"
          /\ UNCHANGED <<gets, all_tracks, next_url>>
       \/ /\ access_token # None
          /\ \E answer \in ApiGetFailures :
                /\ gets' = Append(gets, Get(1, answer))
                /\ fetched' = FetchErr(answer)
                /\ pc' = "returned"
                /\ UNCHANGED <<all_tracks, next_url>>
       \/ /\ access_token # None
          /\ gets' = Append(gets, Get(1, "2xx"))
          /\ all_tracks' = PushItems(upstream[1])
          /\ next_url' = NextOf(upstream, 1)
          /\ pc' = "paging"
          /\ UNCHANGED fetched
    /\ UNCHANGED <<access_token, upstream, old_token, token_requests, refreshed>>
    /\ UNCHANGED engineVarsButPc
    /\ UNCHANGED diskVars
    /\ UNCHANGED journalVars

\* FetchPage returning the tracks collected so far when a page request fails
FetchPageLenient ==
    /\ pc = "paging"
    /\ next_url # None
    /\ LET url == next_url[1] IN
       \/ \E answer \in ApiGetFailures :
             /\ gets' = Append(gets, Get(url, answer))
             /\ fetched' = FetchOk(Snapshot(PlaylistId, all_tracks))
             /\ pc' = "returned"
             /\ UNCHANGED <<all_tracks, next_url>>
       \/ /\ gets' = Append(gets, Get(url, "2xx"))
          /\ all_tracks' = all_tracks \o PushItems(upstream[url])
          /\ next_url' = NextOf(upstream, url)
          /\ UNCHANGED <<pc, fetched>>
    /\ UNCHANGED <<access_token, upstream, old_token, token_requests, refreshed>>
    /\ UNCHANGED engineVarsButPc
    /\ UNCHANGED diskVars
    /\ UNCHANGED journalVars

\* one turn of `while let Some(url) = next_url`: GET the page, push its
\* tracks, take its next cursor; a failing api_get returns the error
FetchPage ==
    /\ pc = "paging"
    /\ next_url # None
    /\ LET url == next_url[1] IN
       \/ \E answer \in ApiGetFailures :
             /\ gets' = Append(gets, Get(url, answer))
             /\ fetched' = FetchErr(answer)
             /\ pc' = "returned"
             /\ UNCHANGED <<all_tracks, next_url>>
       \/ /\ gets' = Append(gets, Get(url, "2xx"))
          /\ all_tracks' = all_tracks \o PushItems(upstream[url])
          /\ next_url' = NextOf(upstream, url)
          /\ UNCHANGED <<pc, fetched>>
    /\ UNCHANGED <<access_token, upstream, old_token, token_requests, refreshed>>
    /\ UNCHANGED engineVarsButPc
    /\ UNCHANGED diskVars
    /\ UNCHANGED journalVars

\* the loop ends when next_url is None: Ok(PlaylistSnapshot { tracks: all_tracks })
FetchReturn ==
    /\ pc = "paging"
    /\ next_url = None
    /\ fetched' = FetchOk(Snapshot(PlaylistId, all_tracks))
    /\ pc' = "returned"
    /\ UNCHANGED <<access_token, upstream, next_url, all_tracks, gets,
                   old_token, token_requests, refreshed>>
    /\ UNCHANGED engineVarsButPc
    /\ UNCHANGED diskVars
    /\ UNCHANGED journalVars

\* a provider with or without a token, and a playlist on the server
InitFetch ==
    /\ pc = "fetch"
    /\ pre = <<>>
    /\ target = <<>>
    /\ patch = <<>>
    /\ post = <<>>
    /\ remote = <<>>
    /\ sent = <<>>
    /\ answers = <<>>
    /\ pushed = "none"
    /\ head = NoFile
    /\ objects = <<>>
    /\ journal = <<>>
    /\ staged = <<>>
    /\ working = NoPointer
    /\ last = [cmd |-> "none", ok |-> TRUE, message |-> "None", write |-> "none"]
    /\ faulted = FALSE
    /\ spent = 0
    /\ file = NoJournal
    /\ appended = <<>>
    /\ readout = NotRead
    /\ access_token \in {None, Some("t1")}
    /\ upstream \in Upstreams
    /\ next_url = None
    /\ all_tracks = <<>>
    /\ gets = <<>>
    /\ fetched = NotFetched
    /\ old_token = NoToken
    /\ token_requests = <<>>
    /\ refreshed = NotRefreshed
NextFetch == FetchPlaylist \/ FetchPage \/ FetchReturn
SpecFetch == InitFetch /\ [][NextFetch]_vars

----------------------------------------------------------------------------
(* provider/spotify.rs: SpotifyProvider::refresh_token *)

\* OAuthToken, with the fields into_oauth_token fills
OAuthToken(access, refresh, expires_at, token_type, scope) ==
    [access_token |-> access, refresh_token |-> refresh, expires_at |-> expires_at,
     token_type |-> token_type, scope |-> scope]

\* SpotifyTokenResponse
SpotifyTokenResponse(access, token_type, expires_in, refresh, scope) ==
    [access_token |-> access, token_type |-> token_type, expires_in |-> expires_in,
     refresh_token |-> refresh, scope |-> scope]

\* the tokens handed to refresh_token: with and without a refresh token
OldTokens ==
    {OAuthToken("a0", refresh, expires_at, "Bearer", scope) :
        refresh \in {None, Some("r1"), Some("r2")},
        expires_at \in {None, Some(5)},
        scope \in {None, Some("playlist-read-private")}}

\* the answers of the token endpoint that parse: with and without a new
\* refresh token
TokenResponses ==
    {SpotifyTokenResponse(access, "Bearer", expires_in, refresh, scope) :
        access \in {"a1", "a2"},
        expires_in \in {1, 2},
        refresh \in {None, Some("r2"), Some("r3")},
        scope \in {None, Some("playlist-read-private")}}

\* the seconds since the epoch when the answer arrives
Clock == {10}

\* SpotifyTokenResponse::into_oauth_token
into_oauth_token(response, now) ==
    OAuthToken(response.access_token, response.refresh_token,
               Some(now + response.expires_in), response.token_type, response.scope)

\* token_request: the POST to the token endpoint failed to send, was answered
\* with a non-2xx status, did not parse, or gave a SpotifyTokenResponse
TokenFailures == {"send", "status", "parse"}
TokenAnswers ==
    {[ok |-> FALSE, response |-> SpotifyTokenResponse("", "", 0, None, None), error |-> e] :
        e \in TokenFailures}
    \cup {[ok |-> TRUE, response |-> r, error |-> "none"] : r \in TokenResponses}

\* the token request sent: grant_type = refresh_token with the refresh token
TokenRequest(refresh, answer) ==
    [grant_type |-> "refresh_token", refresh_token |-> refresh, answer |-> answer]

\* Result<OAuthToken>
TokenOk(token) == [ok |-> TRUE, token |-> token, error |-> "none"]
TokenErr(error) == [ok |-> FALSE, token |-> NoToken, error |-> error]

\* a refresh that keeps the answer's refresh token as it is
CarryForwardNone(new_token, token) == new_token

\* `if new_token.refresh_token.is_none()`: the old refresh token is carried
\* forward
CarryForward(new_token, token) ==
    IF new_token.refresh_token = None
    THEN [new_token EXCEPT !.refresh_token = token.refresh_token]
    ELSE new_token

\* refresh_token(token) when the token endpoint gives `answer` at time `now`:
\* the requests sent and the result
refresh_token(token, answer, now) ==
    IF token.refresh_token = None
    THEN [requests |-> <<>>, result |-> TokenErr("No refresh token available")]
    ELSE LET request == TokenRequest(token.refresh_token[1], answer)
         IN  IF ~answer.ok
             THEN [requests |-> <<request>>, result |-> TokenErr(answer.error)]
             ELSE [requests |-> <<request>>,
                   result |-> TokenOk(CarryForward(
                                  into_oauth_token(answer.response, now), token))]

\* a call of refresh_token
RefreshToken ==
    /\ pc = "refresh"
    /\ \E answer \in TokenAnswers, now \in Clock :
          LET call == refresh_token(old_token, answer, now)
          IN  /\ token_requests' = call.requests
              /\ refreshed' = call.result
    /\ pc' = "refreshed"
    /\ UNCHANGED <<access_token, upstream, next_url, all_tracks, gets, fetched, old_token>>
    /\ UNCHANGED engineVarsButPc
    /\ UNCHANGED diskVars
    /\ UNCHANGED journalVars

InitRefresh ==
    /\ pc = "refresh"
    /\ pre = <<>>
    /\ target = <<>>
    /\ patch = <<>>
    /\ post = <<>>
    /\ remote = <<>>
    /\ sent = <<>>
    /\ answers = <<>>
    /\ pushed = "none"
    /\ head = NoFile
    /\ objects = <<>>
    /\ journal = <<>>
    /\ staged = <<>>
    /\ working = NoPointer
    /\ last = [cmd |-> "none", ok |-> TRUE, message |-> "None", write |-> "none"]
    /\ faulted = FALSE
    /\ spent = 0
    /\ file = NoJournal
    /\ appended = <<>>
    /\ readout = NotRead
    /\ access_token = None
    /\ upstream = <<>>
    /\ next_url = None
    /\ all_tracks = <<>>
    /\ gets = <<>>
    /\ fetched = NotFetched
    /\ old_token \in OldTokens
    /\ token_requests = <<>>
    /\ refreshed = NotRefreshed
NextRefresh == RefreshToken
SpecRefresh == InitRefresh /\ [][NextRefresh]_vars

----------------------------------------------------------------------------
(* cli/commands/staging.rs: the local / remote comparison of status *)

\* the track with other metadata: the same id under another name
Retitled(track) == [track EXCEPT !.name = "other"]

\* the local snapshots status compares with the remote one: the tracks as the
\* provider names them, or one of them under another name
Locals ==
    UNION {{tracks} \cup
           {[tracks EXCEPT ![k] = Retitled(tracks[k])] : k \in DOMAIN tracks} :
              tracks \in Snapshots}

\* what status prints for diff(&remote_snapshot, &local_snapshot)
Report(changes) == IF changes = <<>> THEN "in sync" ELSE "ahead"

\* status, from the fetch on: the fetched snapshot is diffed against the
\* local one, with some iteration order of the two maps
StatusCompare ==
    /\ pc = "start"
    /\ \E local \in Locals :
         \E oldOrder \in Orders(MapKeys(pre)), newOrder \in Orders(MapKeys(local)) :
            /\ target' = local
            /\ patch' = diff(pre, local, oldOrder, newOrder)
    /\ pc' = "compared"
    /\ UNCHANGED <<pre, post, remote, sent, answers, pushed>>
    /\ UNCHANGED diskVars
    /\ UNCHANGED journalVars
    /\ UNCHANGED providerVars

\* the comparison of status on a fetched and a local snapshot
NextSync == StatusCompare
SpecSync == InitDiff /\ [][NextSync]_vars

----------------------------------------------------------------------------
(* Properties of diff, apply_patch and the Spotify apply *)

\* every reordering of a sequence of changes
PermsOf(p) == {[i \in DOMAIN p |-> p[f[i]]] : f \in Orders(DOMAIN p)}

RECURSIVE Without(_, _, _)
\* tracks[k ..] (0-based) without the elements whose index is in I
Without(tracks, I, k) ==
    IF k >= Len(tracks) THEN <<>>
    ELSE (IF k \in I THEN <<>> ELSE <<At(tracks, k)>>) \o Without(tracks, I, k + 1)

IsPut(r) == r.method = "PUT"

\* C1: for duplicate-free A and B, apply_patch(A, diff(A, B)) has B's track
\* sequence, whatever order diff emitted its changes in.
C1_RoundTrip ==
    (pc = "applied" /\ NoDup(pre) /\ NoDup(target)) => post = target

\* C2: apply_patch(S, P) is the same for every permutation of P.changes.
C2_OrderIrrelevant ==
    pc = "applied" => \A q \in PermsOf(patch) : apply_patch(pre, q) = post

\* C3: whenever the latest init or commit that wrote to the playlist's files
\* completed successfully, the last journal entry's snapshot_hash is
\* compute_hash of the snapshot in the head file.
C3_JournalHead ==
    last.write = "ok" =>
        /\ head # NoFile
        /\ journal # <<>>
        /\ journal[Len(journal)].snapshot_hash = compute_hash(head)

\* a commit that succeeded after an earlier init or commit had failed half-way
C3_Witness ==
    /\ faulted
    /\ last.write = "ok"
    /\ journal # <<>>
    /\ journal[Len(journal)].operation = "Commit"
    /\ head.tracks # <<>>

\* how many changes of the kind a patch holds
CountKind(changes, kind) ==
    Cardinality({k \in DOMAIN changes : changes[k].kind = kind})

\* C4: a successful commit of a non-empty staged patch P on head H writes
\* apply_patch(H, P) as the head, appends exactly one Commit entry whose counts
\* are the numbers of Added, Removed and Moved changes of P and whose message
\* is the one given, and leaves the staged patch empty.
C4_CommitPostcondition ==
    [][(last'.cmd = "commit" /\ last'.ok /\ staged # <<>>) =>
          /\ head' = [head EXCEPT !.tracks = apply_patch(head.tracks, staged)]
          /\ Len(journal') = Len(journal) + 1
          /\ SubSeq(journal', 1, Len(journal)) = journal
          /\ LET entry == journal'[Len(journal')]
             IN  /\ entry.operation = "Commit"
                 /\ entry.added = CountKind(staged, "Added")
                 /\ entry.removed = CountKind(staged, "Removed")
                 /\ entry.moved = CountKind(staged, "Moved")
                 /\ entry.message = last'.message
                 /\ entry.message \in Messages
          /\ staged' = <<>>]_vars

\* a commit of an addition, a removal and a move has just succeeded
C4_Witness ==
    /\ last.cmd = "commit"
    /\ last.ok
    /\ staged = <<>>
    /\ journal # <<>>
    /\ journal[Len(journal)].operation = "Commit"
    /\ journal[Len(journal)].added = 1
    /\ journal[Len(journal)].removed = 1
    /\ journal[Len(journal)].moved = 1

\* C5: a patch of Removed changes only, at distinct indices in range of the
\* pre-state, deletes exactly the elements at those pre-state indices and keeps
\* the others in their order, in whatever order the removals are listed.
C5_RemovalOrdering ==
    (/\ pc = "applied"
     /\ \A k \in DOMAIN patch : IsRemoved(patch[k]) /\ patch[k].index < Len(pre)
     /\ \A j, k \in DOMAIN patch : patch[j].index = patch[k].index => j = k)
    => post = Without(pre, {patch[k].index : k \in DOMAIN patch}, 0)

\* two removals listed lowest index first, and a third track that stays
C5_Witness ==
    /\ pc = "applied"
    /\ Len(patch) = 2
    /\ IsRemoved(patch[1]) /\ IsRemoved(patch[2])
    /\ patch[1].index < patch[2].index
    /\ patch[2].index < Len(pre)
    /\ Len(post) = Len(pre) - 2
    /\ Len(post) > 0

\* C6: removals, then additions, then moves: the result is the same for every
\* reordering of patch.changes that keeps the Added changes in their relative
\* order and the Moved changes in theirs; [A,B,C,D,E] with Removed@1,
\* Removed@3, Added{F,0} in any order gives [F,A,C,E].
C6_ClassOrdering ==
    pc = "applied" =>
        /\ \A q \in PermsOf(patch) :
              (Additions(q) = Additions(patch) /\ Moves(q) = Moves(patch))
                  => apply_patch(pre, q) = post
        /\ (pre = ScenarioPre /\ {patch[k] : k \in DOMAIN patch} = ScenarioChanges)
              => post = ScenarioPost

\* the scenario with the addition listed first and the lower removal before
\* the higher one
C6_Witness ==
    /\ pc = "applied"
    /\ pre = ScenarioPre
    /\ patch = <<Added(Track("f"), 0), Removed(Track("b"), 1), Removed(Track("d"), 3)>>
    /\ post = ScenarioPost

\* C7: one Moved{from, to} with both indices in range keeps the length, puts
\* the element from index `from` at index `to`, and keeps the other elements
\* in their relative order.
C7_SingleMove ==
    (/\ pc = "applied"
     /\ Len(patch) = 1
     /\ IsMoved(patch[1])
     /\ patch[1].from < Len(pre)
     /\ patch[1].to < Len(pre))
    => /\ Len(post) = Len(pre)
       /\ At(post, patch[1].to) = At(pre, patch[1].from)
       /\ VecRemove(post, patch[1].to) = VecRemove(pre, patch[1].from)

\* a forward move across another element, with a third element behind it
C7_Witness ==
    /\ pc = "applied"
    /\ Len(patch) = 1
    /\ IsMoved(patch[1])
    /\ patch[1].from + 1 < patch[1].to
    /\ patch[1].to < Len(pre)
    /\ post # pre

\* C8: the reorder requests sent are those of the Moved changes, in order:
\* range_start = from, range_length = 1, insert_before = to + 1 on a forward
\* move and to on a backward move.
C8_ReorderTranslation ==
    pc = "pushed" =>
        LET puts == SelectSeq(sent, IsPut)
            ms == Moves(patch)
        IN  /\ Len(puts) <= Len(ms)
            /\ pushed = "ok" => Len(puts) = Len(ms)
            /\ \A k \in DOMAIN puts :
                  /\ puts[k].range_start = ms[k].from
                  /\ puts[k].range_length = 1
                  /\ ms[k].from < ms[k].to => puts[k].insert_before = ms[k].to + 1
                  /\ ms[k].from > ms[k].to => puts[k].insert_before = ms[k].to

\* a forward and a backward move, both sent and accepted
C8_Witness ==
    /\ pc = "pushed"
    /\ pushed = "ok"
    /\ Len(patch) = 2
    /\ IsMoved(patch[1]) /\ patch[1].from < patch[1].to
    /\ IsMoved(patch[2]) /\ patch[2].from > patch[2].to
    /\ Len(sent) = 2

\* C9: when every HTTP call succeeds, the mutations apply sends turn a
\* duplicate-free remote list R into apply_patch(R, P).
C9_RemoteMirrorsLocal ==
    (pc = "pushed" /\ pushed = "ok" /\ NoDup(pre))
        => remote = apply_patch(pre, patch)

\* C10: diff(A, A) has no changes, also when A holds duplicate track ids.
C10_EmptyDiff ==
    (pc = "ready" /\ target = pre) => patch = <<>>

\* a playlist holding a track id twice, diffed against itself
C10_Witness ==
    /\ pc = "ready"
    /\ target = pre
    /\ ~NoDup(pre)
    /\ patch = <<>>

RECURSIVE Before(_, _, _)
\* the track vector when the k-th processed change cs[k] is reached
Before(tracks, cs, k) ==
    IF k = 1 THEN tracks ELSE StepOne(Before(tracks, cs, k - 1), cs[k - 1])

\* Vec::remove panics when the index is not less than the length, Vec::insert
\* when it exceeds the length
VecPanics(call) ==
    \/ call.op = "remove" /\ call.at >= call.len
    \/ call.op = "insert" /\ call.at > call.len

\* C17: for every snapshot and patch apply_patch completes without a panic;
\* a Removed whose index, and a Moved whose from or to, is not less than the
\* length at the time it is processed leaves the track sequence as it is.
C17_LenientApplier ==
    pc = "applied" =>
        LET cs == Processed(patch) IN
        /\ \A k \in DOMAIN cs :
              LET now == Before(pre, cs, k)
                  c == cs[k]
                  calls == VecCalls(now, c)
              IN  /\ \A j \in DOMAIN calls : ~VecPanics(calls[j])
                  /\ (IsRemoved(c) /\ c.index >= Len(now)) => StepOne(now, c) = now
                  /\ (IsMoved(c) /\ (c.from >= Len(now) \/ c.to >= Len(now)))
                        => StepOne(now, c) = now
        /\ post = Before(pre, cs, Len(cs) + 1)

\* a removal shortens the list, and the move behind it, in range of the
\* pre-state, is out of range when its turn comes and is skipped
C17_Witness ==
    /\ pc = "applied"
    /\ Len(patch) = 2
    /\ IsMoved(patch[1]) /\ IsRemoved(patch[2])
    /\ patch[2].index < Len(pre)
    /\ patch[1].from < patch[1].to
    /\ patch[1].to = Len(pre) - 1
    /\ post = VecRemove(pre, patch[2].index)

\* C18: when apply_patch processes Added{track, index}, the track comes to
\* sit at position index if index is at most the current length and at the
\* end if index exceeds it, the other tracks keeping their order; additions
\* are processed in the order they have in the patch.
C18_AdditionPlacement ==
    pc = "applied" =>
        LET cs == Processed(patch) IN
        /\ \A k \in DOMAIN cs :
              LET now == Before(pre, cs, k)
                  c == cs[k]
                  next == Before(pre, cs, k + 1)
              IN  IsAdded(c) =>
                    /\ Len(next) = Len(now) + 1
                    /\ c.index <= Len(now) =>
                          (At(next, c.index) = c.track /\ VecRemove(next, c.index) = now)
                    /\ c.index > Len(now) => next = Append(now, c.track)
        /\ SelectSeq(cs, IsAdded) = SelectSeq(patch, IsAdded)
        /\ post = Before(pre, cs, Len(cs) + 1)

\* two additions: the first beyond the end and so appended, the second at
\* the front
C18_Witness ==
    /\ pc = "applied"
    /\ pre # <<>>
    /\ Len(patch) = 2
    /\ IsAdded(patch[1]) /\ patch[1].index > Len(pre)
    /\ IsAdded(patch[2]) /\ patch[2].index = 0
    /\ patch[1].track # patch[2].track
    /\ post = <<patch[2].track>> \o pre \o <<patch[1].track>>

\* C19: in the Spotify apply every answer is checked and the first failing
\* call ends the apply with an error: every request before it was answered
\* 2xx, none is sent after it, the mutations already carried out stay, and the
\* head snapshot, the pool, the journal, the staged patch and the working
\* pointer are not touched.
C19_RemoteFailurePolicy ==
    [][pc' = "pushed" =>
          LET reqs == Requests(patch)
              n == Len(sent')
              fine == SubSeq(sent', 1, n - 1)
          IN  /\ Len(answers') = n
              /\ n <= Len(reqs)
              /\ sent' = SubSeq(reqs, 1, n)
              /\ \A k \in 1 .. n - 1 : answers'[k] = "2xx"
              /\ (n > 0 /\ answers'[n] # "2xx") => pushed' = "err"
              /\ pushed' = "ok" => n = Len(reqs)
              /\ IF n > 0 /\ answers'[n] # "2xx"
                 THEN \/ remote' = ServerRun(remote, fine)
                      \/ remote' = ServerRun(remote, sent')
                 ELSE remote' = ServerRun(remote, sent')
              /\ UNCHANGED <<head, objects, journal, staged, working>>]_vars

\* the first request was carried out, the second failed and the third was
\* never sent: the remote list keeps the effect of the first
C19_Witness ==
    /\ pc = "pushed"
    /\ pushed = "err"
    /\ Len(Requests(patch)) = 3
    /\ Len(sent) = 2
    /\ answers = <<"2xx", "error">>
    /\ remote = ServerRun(pre, SubSeq(sent, 1, 1))
    /\ remote # pre

\* the place of a request's endpoint in the order removal, addition, reorder
Rank(r) == CASE r.method = "DELETE" -> 1 [] r.method = "POST" -> 2 [] r.method = "PUT" -> 3

\* the requests of one endpoint among those sent
SentBy(method) == LET is(r) == r.method = method IN SelectSeq(sent, is)

\* whether s is the start of t
IsPrefix(s, t) == Len(s) <= Len(t) /\ s = SubSeq(t, 1, Len(s))

\* C20: whatever the interleaving of patch.changes, apply sends every removal
\* request before any addition request and every addition request before any
\* reorder request, one request per change.
C20_RemoteApplyOrdering ==
    pc = "pushed" =>
        /\ \A i, j \in DOMAIN sent : i < j => Rank(sent[i]) <= Rank(sent[j])
        /\ IsPrefix(SentBy("DELETE"),
                    [k \in DOMAIN Removals(patch) |-> DeleteRequest(Removals(patch)[k])])
        /\ IsPrefix(SentBy("POST"),
                    [k \in DOMAIN Additions(patch) |-> PostRequest(Additions(patch)[k])])
        /\ IsPrefix(SentBy("PUT"),
                    [k \in DOMAIN Moves(patch) |-> PutRequest(Moves(patch)[k])])
        /\ SentBy("POST") # <<>> => Len(SentBy("DELETE")) = Len(Removals(patch))
        /\ SentBy("PUT") # <<>> => Len(SentBy("POST")) = Len(Additions(patch))
        /\ pushed = "ok" => Len(sent) = Len(patch)

\* a patch listing a move before a removal: the removal request goes first
C20_Witness ==
    /\ pc = "pushed"
    /\ pushed = "ok"
    /\ Len(patch) = 2
    /\ IsMoved(patch[1]) /\ IsRemoved(patch[2])
    /\ Len(sent) = 2
    /\ sent[1].method = "DELETE" /\ sent[2].method = "PUT"

\* the changes the classification of the ids of old and new calls for
Classified(old, new) ==
    {Removed(old[i], i - 1) :
        i \in {i \in DOMAIN old : \A j \in DOMAIN new : new[j].id # old[i].id}}
    \cup {Added(new[j], j - 1) :
             j \in {j \in DOMAIN new : \A i \in DOMAIN old : old[i].id # new[j].id}}
    \cup {Moved(new[p[2]], p[1] - 1, p[2] - 1) :
             p \in {p \in (DOMAIN old) \X (DOMAIN new) :
                       old[p[1]].id = new[p[2]].id /\ p[1] # p[2]}}

\* C11: for duplicate-free old and new, diff(old, new) holds exactly one
\* Removed{position in old} per id only in old, one Added{position in new} per
\* id only in new, one Moved{from, to} per id in both at different positions,
\* and nothing else.
C11_DiffClassification ==
    (pc # "start" /\ NoDup(pre) /\ NoDup(target)) =>
        /\ {patch[k] : k \in DOMAIN patch} = Classified(pre, target)
        /\ Len(patch) = Cardinality(Classified(pre, target))

\* a diff with a removed, an added and a moved track
C11_Witness ==
    /\ pc = "ready"
    /\ NoDup(pre) /\ NoDup(target)
    /\ Len(patch) = 3
    /\ \E i, j, k \in DOMAIN patch :
          IsRemoved(patch[i]) /\ IsAdded(patch[j]) /\ IsMoved(patch[k])

----------------------------------------------------------------------------
(* Properties of the commands and of the files they keep *)

\* C12: for every journal entry, the object objects/<snapshot_hash> exists in
\* the playlist's pool and holds a snapshot whose compute_hash is that hash.
C12_HistoryRecoverable ==
    \A k \in DOMAIN journal :
        LET hash == journal[k].snapshot_hash
        IN  /\ hash \in DOMAIN objects
            /\ compute_hash(objects[hash]) = hash

\* an init and a commit have been journalled, with different hashes
C12_Witness ==
    /\ Len(journal) >= 2
    /\ journal[1].operation = "Init"
    /\ journal[2].operation = "Commit"
    /\ journal[1].snapshot_hash # journal[2].snapshot_hash
    /\ last.ok

\* C13: in every commit run, complete or cut short by a failing step, the
\* post-state is stored under its hash before the head file is overwritten,
\* the journal entry (carrying that hash) is appended only after both writes,
\* and the staged patch is cleared only after the append.
C13_CommitStepOrdering ==
    [][last'.cmd = "commit" =>
          LET after == [head EXCEPT !.tracks = apply_patch(head.tracks, staged)]
              hash == compute_hash(after)
              stored == hash \in DOMAIN objects' /\ objects'[hash] = after
              journalled == /\ Len(journal') = Len(journal) + 1
                          /\ journal'[Len(journal')].snapshot_hash = hash
          IN  /\ head' # head => (stored /\ head' = after)
              /\ journal' # journal => (journalled /\ stored /\ head' = after)
              /\ staged' # staged =>
                    (staged' = <<>> /\ journalled /\ stored /\ head' = after)]_vars

\* a commit has failed at the journal append: the post-state is in the pool
\* and in the head file, the journal and the staged patch are as they were
C13_Witness ==
    /\ last.cmd = "commit"
    /\ ~last.ok
    /\ staged # <<>>
    /\ journal # <<>>
    /\ compute_hash(head) \in DOMAIN objects
    /\ objects[compute_hash(head)] = head
    /\ journal[Len(journal)].snapshot_hash # compute_hash(head)

\* C14: every staged Added carries index = length of the head snapshot +
\* number of additions staged before it and not yet committed.
C14_StagedAdditionIndex ==
    \A k \in DOMAIN staged :
        IsAdded(staged[k]) =>
            staged[k].index =
                Len(head.tracks) + CountKind(SubSeq(staged, 1, k - 1), "Added")

\* the journal after the step holds the journal before it as a prefix
JournalGrows ==
    /\ Len(journal') >= Len(journal)
    /\ SubSeq(journal', 1, Len(journal)) = journal

\* the step is an init of a playlist with no head file / a commit of a
\* non-empty staged patch
InitStep == last'.cmd = "init" /\ head = NoFile
CommitStep == last'.cmd = "commit" /\ head # NoFile /\ staged # <<>>

\* C15 as stated: the journal only grows, the previous contents staying an
\* unchanged prefix; an entry is added only by a successful init or by a
\* commit with a non-empty staged patch, and then exactly one.
C15_AppendOnlyAsStated ==
    [][/\ JournalGrows
       /\ journal' # journal =>
             /\ Len(journal') = Len(journal) + 1
             /\ (InitStep /\ last'.ok) \/ CommitStep]_vars

\* C15, amended: the journal only grows, the previous contents staying an
\* unchanged prefix; an entry is added only by an init or by a commit with a
\* non-empty staged patch, and then exactly one; every init and every such
\* commit that returns success adds one. (An init that fails after its
\* append, at clear_staged or at the working-playlist write, leaves its entry.)
C15_AppendOnly ==
    [][/\ JournalGrows
       /\ journal' # journal =>
             /\ Len(journal') = Len(journal) + 1
             /\ InitStep \/ CommitStep
       /\ ((InitStep \/ CommitStep) /\ last'.ok) =>
             Len(journal') = Len(journal) + 1]_vars

\* an init failed after its append (the working-playlist pointer was never
\* written) and a later commit added the second entry behind the first
C15_Witness ==
    /\ Len(journal) = 2
    /\ journal[1].operation = "Init"
    /\ journal[2].operation = "Commit"
    /\ working = NoPointer
    /\ faulted

\* C16: read_all on a missing journal file returns the empty list; after n
\* successful appends to an absent journal (and nothing else written) it
\* returns those n entries in append order; when a non-blank line fails to
\* parse it returns an error and no partial list.
C16_ReadAppend ==
    (pc = "read" /\ readout.error # "read") =>
        /\ ~file.exists => readout = Ok(<<>>)
        /\ (/\ file.tail = <<>>
            /\ file.lines = [k \in DOMAIN appended |-> to_string(appended[k])])
              => readout = Ok(appended)
        /\ (\E k \in DOMAIN Lines(file) :
                NotBlank(Lines(file)[k]) /\ ~from_str(Lines(file)[k]).ok)
              => (~readout.ok /\ readout.entries = <<>>)

\* two different entries, one of them without a message, appended to an
\* absent journal and read back
C16_Witness ==
    /\ pc = "read"
    /\ Len(appended) = 2
    /\ appended[1] # appended[2]
    /\ Len(file.lines) = 2
    /\ readout = Ok(appended)

----------------------------------------------------------------------------
(* Properties of the provider's fetch and refresh_token *)

RECURSIVE Flat(_)
\* the items of all pages, in page order and in-page order
Flat(pages) == IF pages = <<>> THEN <<>> ELSE Head(pages) \o Flat(Tail(pages))

\* whether the server has a track for the item
HasTrackObject(item) == item.track # None

\* C21: fetch requests the playlist and then every next cursor in turn until
\* a page has none; the snapshot it returns holds the tracks of all pages in
\* page order and in-page order (N tracks for N upstream tracks); when the
\* token is missing or a request fails it returns an error and no snapshot.
C21_FullPagination ==
    pc = "returned" =>
        LET failed == \E k \in DOMAIN gets : gets[k].answer # "2xx"
            items == Flat(upstream)
            have == SelectSeq(items, HasTrackObject)
        IN  /\ fetched.ok <=> (access_token # None /\ ~failed)
            /\ \A k \in DOMAIN gets :
                  /\ gets[k].url = k
                  /\ k < Len(gets) => gets[k].answer = "2xx"
            /\ Len(gets) <= Len(upstream)
            /\ fetched.ok =>
                  /\ Len(gets) = Len(upstream)
                  /\ fetched.snapshot.tracks =
                        [k \in DOMAIN have |-> Track(have[k].track[1].id)]
                  /\ (\A i \in DOMAIN items : HasTrackObject(items[i]))
                        => Len(fetched.snapshot.tracks) = Len(items)
            /\ ~fetched.ok => fetched.snapshot = NoFile

\* three tracks served as a page of two and a page of one, fetched in full
C21_Witness ==
    /\ pc = "returned"
    /\ fetched.ok
    /\ Len(upstream) = 2
    /\ Len(upstream[1]) = 2
    /\ Len(upstream[2]) = 1
    /\ Len(gets) = 2
    /\ Len(fetched.snapshot.tracks) = 3
    /\ fetched.snapshot.tracks[1] # fetched.snapshot.tracks[3]

\* C22: refresh_token(old) returns a token whose refresh_token is the one of
\* the provider's answer when the answer has one and old's when it has none;
\* when old has no refresh token it fails and sends no request.
C22_RefreshCarryForward ==
    pc = "refreshed" =>
        /\ old_token.refresh_token = None =>
              (~refreshed.ok /\ token_requests = <<>>)
        /\ refreshed.ok =>
              /\ Len(token_requests) = 1
              /\ token_requests[1].refresh_token = old_token.refresh_token[1]
              /\ LET response == token_requests[1].answer.response
                 IN  /\ response.refresh_token # None =>
                           refreshed.token.refresh_token = response.refresh_token
                     /\ response.refresh_token = None =>
                           refreshed.token.refresh_token = old_token.refresh_token
                     /\ refreshed.token.access_token = response.access_token

\* the answer carried no refresh token and the old one was kept
C22_Witness ==
    /\ pc = "refreshed"
    /\ refreshed.ok
    /\ token_requests[1].answer.response.refresh_token = None
    /\ refreshed.token.refresh_token = Some("r1")
    /\ refreshed.token.access_token # old_token.access_token

\* the command returned an error and left the head snapshot, the pool, the
\* journal and the staged patch as they were
ErrorNoChange == ~last'.ok /\ UNCHANGED <<head, objects, journal, staged>>

\* C23: add, remove, move_track, reset, commit and status given no playlist
\* id or a playlist without a head snapshot, remove and move_track given a
\* track id that the head snapshot lacks, and move_track given a target equal
\* to the current position or not less than the playlist length, return an
\* error and leave the head snapshot, the pool, the journal and the staged
\* patch unchanged: a step that is not such an error is not the step of
\* any of these commands on any of these inputs.
C23_InputErrors ==
    [][ErrorNoChange \/
       \A playlist \in PlaylistArgs :
          /\ (last'.cmd = "add" /\ ~Initialized(playlist)) =>
                \A id \in AddIds, fail \in BOOLEAN : ~add(id, playlist, fail)
          /\ (last'.cmd = "reset" /\ ~Initialized(playlist)) =>
                \A fail \in BOOLEAN : ~reset(playlist, fail)
          /\ (last'.cmd = "commit" /\ ~Initialized(playlist)) =>
                \A message \in Messages, fail \in CommitFailures :
                    ~commit(message, playlist, fail)
          /\ (last'.cmd = "status" /\ ~Initialized(playlist)) =>
                \A fail \in StatusFailures : ~status(playlist, fail)
          /\ last'.cmd = "remove" =>
                \A id \in CommandIds, fail \in BOOLEAN :
                    (~Initialized(playlist) \/ ~HasTrack(head.tracks, id)) =>
                        ~remove(id, playlist, fail)
          /\ last'.cmd = "move" =>
                \A id \in CommandIds, new_index \in CommandIndices, fail \in BOOLEAN :
                    (\/ ~Initialized(playlist)
                     \/ ~HasTrack(head.tracks, id)
                     \/ new_index >= Len(head.tracks)
                     \/ new_index = FindTrack(head.tracks, id))
                       => ~move_track(id, new_index, playlist, fail)]_vars

\* a move was refused on a playlist that holds no track while an addition
\* is staged: the staged patch is as it was
C23_Witness ==
    /\ last.cmd = "move"
    /\ ~last.ok
    /\ head # NoFile
    /\ head.tracks = <<>>
    /\ staged # <<>>
    /\ journal # <<>>

\* C24: a successful reset leaves the staged patch empty and the head
\* snapshot, the pool and the journal as they were; with nothing staged,
\* reset of an initialized playlist succeeds and changes nothing.
C24_Reset ==
    [][last'.cmd = "reset" =>
          /\ last'.ok =>
                (staged' = <<>> /\ UNCHANGED <<head, objects, journal, working>>)
          /\ \A playlist \in PlaylistArgs, fail \in BOOLEAN :
                (reset(playlist, fail) /\ Initialized(playlist) /\ staged = <<>>)
                    => (last'.ok /\ UNCHANGED <<head, objects, journal, staged, working>>)]_vars

\* staged changes were discarded by a reset: the journal still holds the
\* entry of the init alone
C24_Witness ==
    /\ last.cmd = "reset"
    /\ last.ok
    /\ staged = <<>>
    /\ spent >= 2
    /\ Len(journal) = 1
    /\ head.tracks # <<>>

\* C25: each successful add, remove or move_track appends exactly one
\* TrackChange to the staged patch, behind the changes staged before, and
\* leaves the head snapshot, the pool and the journal as they were; whether
\* the command succeeds depends on the head snapshot alone, never on what is
\* staged already.
C25_StagingAdvisory ==
    [][last'.cmd \in {"add", "remove", "move"} =>
          /\ last'.ok =>
                /\ Len(staged') = Len(staged) + 1
                /\ SubSeq(staged', 1, Len(staged)) = staged
                /\ staged'[Len(staged')].kind =
                      (CASE last'.cmd = "add" -> "Added"
                         [] last'.cmd = "remove" -> "Removed"
                         [] last'.cmd = "move" -> "Moved")
                /\ UNCHANGED <<head, objects, journal, working>>
          /\ \A id \in AddIds :
                (add(id, PlaylistId, FALSE) /\ head # NoFile) => last'.ok
          /\ \A id \in CommandIds :
                (remove(id, PlaylistId, FALSE) /\ head # NoFile
                    /\ HasTrack(head.tracks, id)) => last'.ok
          /\ \A id \in CommandIds, new_index \in CommandIndices :
                (/\ move_track(id, new_index, PlaylistId, FALSE)
                 /\ head # NoFile
                 /\ HasTrack(head.tracks, id)
                 /\ new_index < Len(head.tracks)
                 /\ new_index # FindTrack(head.tracks, id)) => last'.ok]_vars

\* the first track of the playlist staged for removal twice and the second
\* once: the three removals cannot all take effect, and all are staged
C25_Witness ==
    /\ last.cmd = "remove"
    /\ last.ok
    /\ Len(head.tracks) = 2
    /\ Len(staged) = 3
    /\ IsRemoved(staged[1]) /\ staged[2] = staged[1]
    /\ IsRemoved(staged[3]) /\ staged[3].index = 1

\* the characters of a lowercase hexadecimal string
HexChars == {HexDigits[k] : k \in DOMAIN HexDigits}

C27_InitPostcondition ==
    [][(last'.cmd = "init" /\ last'.ok) =>
          /\ \E playlist \in Fetched : init_run(playlist, "none") /\ head = NoFile
          /\ \A playlist \in Fetched :
                init_run(playlist, "none") =>
                    LET hash == compute_hash(playlist)
                    IN  /\ head' = playlist
                        /\ hash \in DOMAIN objects'
                        /\ objects'[hash] = playlist
                        /\ Len(journal') = 1
                        /\ journal'[1].operation = "Init"
                        /\ journal'[1].snapshot_hash = hash
                        /\ journal'[1].added = Len(playlist.tracks)
                        /\ journal'[1].removed = 0
                        /\ journal'[1].moved = 0
                        /\ journal'[1].message = "None"
                        /\ staged' = <<>>
                        /\ working' = playlist.id]_vars

\* a playlist of two tracks has just been initialized
C27_Witness ==
    /\ last.cmd = "init"
    /\ last.ok
    /\ Len(head.tracks) = 2
    /\ journal = <<JournalEntryNew("Init", compute_hash(head), 2, 0, 0)>>
    /\ objects[compute_hash(head)] = head
    /\ staged = <<>>
    /\ working = PlaylistId

\* C28: across init, stage, reset and commit commands, complete or cut short
\* by a failing step, an object objects/<hash> that exists is never deleted
\* and the snapshot it holds never changes.
C28_PoolImmutable ==
    [][\A hash \in DOMAIN objects :
          /\ hash \in DOMAIN objects'
          /\ objects'[hash] = objects[hash]]_vars

\* a second commit brought the playlist back to the snapshot of the init:
\* its object was written again, with the same content
C28_Witness ==
    /\ Len(journal) = 3
    /\ journal[3].snapshot_hash = journal[1].snapshot_hash
    /\ journal[2].snapshot_hash # journal[1].snapshot_hash
    /\ Cardinality(DOMAIN objects) = 2
    /\ objects[journal[1].snapshot_hash] = head
    /\ last.cmd = "commit"

\* C29: when the provider's fetch fails during init, init returns an error
\* and has written no head snapshot, no object, no journal entry and no
\* working-playlist pointer; when it fails during status, no file changes.
C29_FetchFailure ==
    [][/\ last'.cmd = "init" =>
             \A playlist \in Fetched :
                 (init_run(playlist, "fetch") /\ head = NoFile) =>
                     /\ ~last'.ok
                     /\ head' = NoFile
                     /\ objects' = objects
                     /\ journal' = journal
                     /\ working' = working
                     /\ staged' = staged
       /\ last'.cmd = "status" =>
             \A playlist \in PlaylistArgs :
                 status(playlist, "fetch") =>
                     UNCHANGED <<head, objects, journal, staged, working>>]_vars

\* an init has failed before its first write: the playlist has no file
C29_Witness ==
    /\ last.cmd = "init"
    /\ ~last.ok
    /\ head = NoFile
    /\ objects = <<>>
    /\ journal = <<>>
    /\ working = NoPointer

\* C30: when the staged patch holds nothing but the changes of k add commands
\* run one after another on the head snapshot, a successful commit leaves the
\* old head followed by the k tracks in the order they were staged.
C30_StagedAdditionsOrder ==
    [][(/\ last'.cmd = "commit"
        /\ last'.ok
        /\ staged # <<>>
        /\ \A k \in DOMAIN staged : IsAdded(staged[k]))
          => head'.tracks = head.tracks \o [k \in DOMAIN staged |-> staged[k].track]]_vars

----------------------------------------------------------------------------
(* Properties of what a commit changes, of diff and of the refusals *)

\* the track ids of the model
TrackIds == {AllIds[k] : k \in DOMAIN AllIds} \cup NewIds

\* how often the id occurs in a track vector
Occurrences(tracks, id) ==
    Cardinality({i \in DOMAIN tracks : tracks[i].id = id})

\* how often the changes of the kind carry the id
Naming(changes, kind, id) ==
    Cardinality({k \in DOMAIN changes :
                    changes[k].kind = kind /\ changes[k].track.id = id})

\* m - n on multiplicities
Monus(m, n) == IF m > n THEN m - n ELSE 0

\* C31: a successful commit of changes staged by add, remove and move_track
\* on a duplicate-free head deletes only tracks whose id a staged remove
\* names, and the multiset of ids of the new head is that of the old head
\* minus the removed ids plus the added ids.
C31_CommitOnlyRequested ==
    [][(/\ last'.cmd = "commit"
        /\ last'.ok
        /\ staged # <<>>
        /\ NoDup(head.tracks))
          => \A id \in TrackIds :
                /\ Occurrences(head'.tracks, id) < Occurrences(head.tracks, id)
                      => Naming(staged, "Removed", id) > 0
                /\ Occurrences(head'.tracks, id) =
                      Monus(Occurrences(head.tracks, id),
                            Naming(staged, "Removed", id))
                        + Naming(staged, "Added", id)]_vars

\* the sequence of track ids of a track vector
Ids(tracks) == [k \in DOMAIN tracks |-> tracks[k].id]

\* C32: for duplicate-free A and B, diff(A, B) is empty (and status reports
\* "in sync") exactly when A and B have the same sequence of track ids;
\* snapshots that differ in track metadata only, duplicate-free or not, give
\* no change.
C32_InSyncDetection ==
    pc = "compared" =>
        /\ (NoDup(pre) /\ NoDup(target)) =>
              /\ (patch = <<>>) <=> (Ids(pre) = Ids(target))
              /\ (Report(patch) = "in sync") <=> (Ids(pre) = Ids(target))
        /\ Ids(pre) = Ids(target) => patch = <<>>

\* two snapshots of the same three ids in the same order, one of the tracks
\* under another name: no change and "in sync"
C32_Witness ==
    /\ pc = "compared"
    /\ Len(pre) = 3
    /\ NoDup(pre)
    /\ Ids(pre) = Ids(target)
    /\ pre # target
    /\ patch = <<>>
    /\ Report(patch) = "in sync"

\* how often the track (id and metadata) occurs in a track vector
Copies(tracks, t) == Cardinality({i \in DOMAIN tracks : tracks[i] = t})

\* C33: in apply_patch a Moved never alters the length or the multiset of
\* tracks, every Added lengthens the vector by exactly one, every Removed
\* shortens it by at most one, and the final length is the initial length
\* minus the removals performed plus the number of Added changes.
C33_LengthAccounting ==
    pc = "applied" =>
        LET cs == Processed(patch)
            performed == {k \in DOMAIN cs :
                             IsRemoved(cs[k]) /\ VecCalls(Before(pre, cs, k), cs[k]) # <<>>}
        IN  /\ \A k \in DOMAIN cs :
                  LET now == Before(pre, cs, k)
                      then == Before(pre, cs, k + 1)
                      c == cs[k]
                  IN  /\ IsMoved(c) =>
                            /\ Len(then) = Len(now)
                            /\ \A i \in DOMAIN now :
                                  Copies(then, now[i]) = Copies(now, now[i])
                      /\ IsAdded(c) => Len(then) = Len(now) + 1
                      /\ IsRemoved(c) =>
                            (Len(then) = Len(now) \/ Len(then) = Len(now) - 1)
                      /\ IsRemoved(c) =>
                            (Len(then) = Len(now) - 1 <=> k \in performed)
            /\ post = Before(pre, cs, Len(cs) + 1)
            /\ Len(post) = Len(pre) - Cardinality(performed) + Len(Additions(patch))

\* three removals on three tracks, two of them performed and one skipped
\* because its index is out of range when its turn comes
C33_Witness ==
    /\ pc = "applied"
    /\ Len(pre) = 3
    /\ Len(patch) = 3
    /\ \A k \in DOMAIN patch : IsRemoved(patch[k]) /\ patch[k].index < Len(pre)
    /\ Len(post) = 1

\* the change with Added and Removed exchanged and from and to exchanged
Inverse(c) ==
    IF IsAdded(c) THEN Removed(c.track, c.index)
    ELSE IF IsRemoved(c) THEN Added(c.track, c.index)
    ELSE Moved(c.track, c.to, c.from)

\* the same change: the same kind and positions and the same track, a track
\* being the same when its id is
SameChange(c, d) ==
    /\ c.kind = d.kind
    /\ c.track.id = d.track.id
    /\ IF IsMoved(c) THEN c.from = d.from /\ c.to = d.to ELSE c.index = d.index

\* how often the change occurs in a patch
Times(changes, c) ==
    Cardinality({k \in DOMAIN changes : SameChange(changes[k], c)})

\* C34: for duplicate-free A and B, diff(B, A) holds exactly the changes of
\* diff(A, B) with Added and Removed exchanged and from and to of every Moved
\* exchanged (a DiffPatch being an unordered multiset of changes), under every
\* iteration order of the maps; an Added or Removed of the one carries the
\* very track value the Removed or Added of the other carries.
C34_DiffAntiSymmetric ==
    (pc = "compared" /\ NoDup(pre) /\ NoDup(target)) =>
        \A oldOrder \in Orders(MapKeys(target)), newOrder \in Orders(MapKeys(pre)) :
            LET back == diff(target, pre, oldOrder, newOrder)
            IN  /\ Len(back) = Len(patch)
                /\ \A k \in DOMAIN patch :
                      /\ Times(back, Inverse(patch[k])) = Times(patch, patch[k])
                      /\ ~IsMoved(patch[k]) =>
                            \E j \in DOMAIN back : back[j] = Inverse(patch[k])

\* a diff with a removed, an added and a moved track
C34_Witness ==
    /\ pc = "compared"
    /\ NoDup(pre) /\ NoDup(target)
    /\ Len(patch) = 3
    /\ IsRemoved(patch[1]) /\ IsAdded(patch[2]) /\ IsMoved(patch[3])
    /\ patch[3].track # Track(patch[3].track.id)

\* C35: a commit that returns an error, at whichever step (load_staged, the
\* load of the head, the hash, the by-hash write, the head write, the journal
\* append), leaves the staged patch exactly as it was; the staged patch
\* changes only in a commit that has appended its journal entry.
C35_FailedCommitKeepsStaged ==
    [][last'.cmd = "commit" =>
          /\ ~last'.ok => staged' = staged
          /\ staged' # staged =>
                /\ last'.ok
                /\ staged' = <<>>
                /\ Len(journal') = Len(journal) + 1]_vars

\* a commit of two staged changes has failed at the head write: the
\* post-state is in the pool, the head, the journal and the two staged
\* changes are as they were
C35_Witness ==
    /\ last.cmd = "commit"
    /\ ~last.ok
    /\ Len(staged) = 2
    /\ Len(journal) = 1
    /\ LET after == [head EXCEPT !.tracks = apply_patch(head.tracks, staged)]
       IN  /\ after # head
           /\ compute_hash(after) \in DOMAIN objects
           /\ journal[1].snapshot_hash = compute_hash(head)

\* C36: a commit of an initialized playlist with nothing staged returns
\* success and leaves the head snapshot, the pool and the journal as they
\* were; a commit run right after a successful commit adds no journal entry.
C36_EmptyCommit ==
    [][last'.cmd = "commit" =>
          /\ (head # NoFile /\ staged = <<>>) =>
                UNCHANGED <<head, objects, journal, staged, working>>
          /\ \A message \in Messages :
                (commit(message, PlaylistId, "none") /\ head # NoFile /\ staged = <<>>)
                    => last'.ok
          /\ (last.cmd = "commit" /\ last.ok) =>
                (staged = <<>> /\ journal' = journal)]_vars

\* a commit with nothing staged has succeeded on a playlist of two tracks:
\* the journal holds the entry of the init alone, the pool its one object
C36_Witness ==
    /\ last.cmd = "commit"
    /\ last.ok
    /\ staged = <<>>
    /\ Len(head.tracks) = 2
    /\ journal = <<JournalEntryNew("Init", compute_hash(head), 2, 0, 0)>>
    /\ DOMAIN objects = {compute_hash(head)}

\* the journal holds at most one Init entry, and only as its first entry
InitEntryFirst ==
    \A k \in DOMAIN journal : journal[k].operation = "Init" => k = 1

\* C37: init of a playlist whose head snapshot file exists returns an error
\* before the credentials are read or the provider is contacted (whatever the
\* provider would have returned) and leaves the head snapshot, the pool, the
\* journal, the staged patch and the working-playlist pointer as they were;
\* at every moment the journal holds at most one Init entry, its first.
C37_InitRefusal ==
    [][/\ (last'.cmd = "init" /\ head # NoFile) =>
             /\ ~last'.ok
             /\ UNCHANGED <<head, objects, journal, staged, working>>
             /\ \A playlist \in Fetched, fail \in InitFailures :
                   init_run(playlist, fail) => fail = "none"
       /\ InitEntryFirst'
       /\ journal' # journal =>
             (journal'[Len(journal')].operation = "Init" <=> head = NoFile)]_vars

\* an init was refused on a playlist that has a commit in its journal and a
\* change staged
C37_Witness ==
    /\ last.cmd = "init"
    /\ ~last.ok
    /\ head # NoFile
    /\ Len(journal) = 2
    /\ journal[1].operation = "Init"
    /\ journal[2].operation = "Commit"
    /\ staged # <<>>

====
